---------------------------- MODULE Spec2Model ----------------------------
(***************************************************************************)
(* The cross-unit bridge of gnupg.wasm: the shared-memory ByteChannel      *)
(* (queuePushByte / queuePopByte / queueClose over an Int32Array ctrl and  *)
(* a Uint8Array data), the virtual device built on it (read / write /      *)
(* poll) and the readability watcher.                                      *)
(*                                                                         *)
(* One channel is modelled with a producer thread, a consumer thread and   *)
(* a closing thread.  Every Atomics operation of the source is one step,   *)
(* so all interleavings of the three threads are explored.                 *)
(***************************************************************************)
EXTENDS Integers, Sequences, FiniteSets, TLC

(* ------------------------------ bounds -------------------------------- *)
\* data.length of the modelled channel (the source allocates >= 1024 bytes)
QSize == 3
\* number of bytes the producer may get accepted in one behaviour
MaxPush == QSize + 1
\* number of queueClose calls in one behaviour
MaxClose == 2
\* largest length argument of the device's read and write
MaxLen == 2
\* number of poll calls that pass a notification callback
MaxReg == 2
\* number of bytes the peer writes into a polled channel: what the ring holds
MaxPeerPush == QSize - 1
\* number of command lines the engine's peer sends in one behaviour
MaxCmds == 2
\* number of session-reset messages delivered to the engine
MaxResets == 1
\* length of the payload the fetch collaborator returns
PayloadLen == 300
\* number of logical sessions the client starts on one agent session worker
MaxSessions == 2

\* The channel code never inspects a byte (it only masks it with 0xff), so
\* the producer's stream is taken with pairwise distinct bytes: byte k of the
\* stream is Payload(k).  Loss, duplication and reordering are then visible
\* in the histories.  Odd positions carry bit 8 to exercise the "& 0xff".
Payload(k) == 65 + k + 256 * (k % 2)

VARIABLES
  ctrl,     \* Int32Array: [0]=head, [1]=tail, [2]=closed, [3]=generation
  data,     \* Uint8Array of QSize slots
  push,     \* producer thread: frame of queuePushByte
  pop,      \* consumer thread: frame of queuePopByte
  closer,   \* closing thread: position inside queueClose
  hist,     \* history: bytes accepted / returned, in order; how many bytes
            \* pushed before the first close are still unread; close calls
  wr,       \* producer thread: frame of the device's write(stream, buffer, ..)
  rd,       \* consumer thread: frame of the device's read(stream, buffer, ..)
  pl,       \* consumer thread: frame of the device's poll(stream, timeout, cb)
  watch,    \* consumer thread: readableHandlers and the setInterval watcher
  sb,       \* a session bridge and its parent: createAgentBridge,
            \* createExternalAgentBridge or createScdaemonBridge
  eng       \* the Assuan engine of the dirmngr fetch worker (runBridge)

chanVars == <<ctrl, data, push, pop, closer, hist>>
devVars == <<wr, rd, pl, watch>>
vars == <<ctrl, data, push, pop, closer, hist, wr, rd, pl, watch, sb, eng>>

qHead == ctrl[0]
qTail == ctrl[1]
qClosed == ctrl[2]
qGeneration == ctrl[3]

\* Number(byteValue) & 0xff
ByteOf(v) == v % 256

IsPrefix(s, t) == Len(s) <= Len(t) /\ SubSeq(t, 1, Len(s)) = s

(* --------------------------- construction ----------------------------- *)
\* createSharedQueueDescriptor: zero-filled SharedArrayBuffers
createSharedQueue ==
  /\ ctrl = [i \in 0..3 |-> 0]
  /\ data = [i \in 0..(QSize - 1) |-> 0]

\* results of queuePopByte: a byte, null (closed and empty), undefined
\* (would block); RetNone while no call has returned
RetByte(b) == [kind |-> "byte", value |-> b]
RetNull == [kind |-> "null", value |-> 0]
RetUndefined == [kind |-> "undefined", value |-> 0]
RetNone == [kind |-> "none", value |-> 0]

\* the frame of queuePushByte outside a call: locals are dead, the flags
\* stored / closedAtCall / quiet / waitsClosed record facts about the call
PushFrame0 ==
  [pc |-> "idle", head |-> 0, tail |-> 0, value |-> 0, shouldBlock |-> FALSE,
   stamp |-> 0, ret |-> "none", stored |-> FALSE, closedAtCall |-> FALSE,
   quiet |-> FALSE, waitsClosed |-> 0]

\* the frame of queuePopByte outside a call
PopFrame0 ==
  [pc |-> "idle", head |-> 0, tail |-> 0, value |-> 0, shouldBlock |-> FALSE,
   stamp |-> 0, ret |-> RetNone, waitsClosed |-> 0]

\* the frame after "return r": locals die, the call's flags stay readable
PushReturn(r) ==
  [PushFrame0 EXCEPT !.ret = r, !.shouldBlock = push.shouldBlock,
                     !.stored = push.stored,
                     !.closedAtCall = push.closedAtCall,
                     !.quiet = push.quiet, !.waitsClosed = push.waitsClosed]

PopReturn(r) ==
  [PopFrame0 EXCEPT !.ret = r, !.shouldBlock = pop.shouldBlock,
                    !.waitsClosed = pop.waitsClosed]

\* results of the device calls: a byte count, or a thrown FS.ErrnoError
DevNone == [kind |-> "none", n |-> 0]
DevCount(n) == [kind |-> "count", n |-> n]
DevErrno(e) == [kind |-> "errno", n |-> e]

\* write(): count, length, and whether some writeByte found its push refused
WriteFrame0 ==
  [pc |-> "idle", count |-> 0, length |-> 0, start |-> 0, failed |-> FALSE,
   ret |-> DevNone]

\* read(): count, length, the bytes copied into buffer, the closed flag as
\* isReadableClosed() returned it
ReadFrame0 ==
  [pc |-> "idle", count |-> 0, length |-> 0, buf |-> <<>>,
   sawClosed |-> FALSE, ret |-> DevNone]

\* poll(): the mask, whether a callback was passed, and what the channel
\* held when poll was called
PollFrame0 ==
  [pc |-> "idle", cb |-> 0, mask |-> 0,
   dataAtCall |-> FALSE, closedAtCall |-> FALSE, returned |-> FALSE]

\* createAgentBridge / createScdaemonBridge: readableHandlers = [],
\* readableWatcherId = null, lastReadableState = lastClosedState = false.
\* invoked counts the calls of each registered callback; prevSample and
\* lastTick record the previous sample and what the last sample did.
Watch0 ==
  [pc |-> "idle", hasData |-> FALSE,
   readableHandlers |-> <<>>, readableWatcherId |-> FALSE,
   lastReadableState |-> FALSE, lastClosedState |-> FALSE,
   nextId |-> 1, invoked |-> [i \in 1..MaxReg |-> 0],
   prevSample |-> [hasData |-> FALSE, closed |-> FALSE],
   lastTick |-> [edge |-> FALSE, before |-> {}, fired |-> {}]]

\* sb and eng in the behaviours that construct no session bridge and no
\* engine
NoBridge == [kind |-> "none"]
NoEngine == [variant |-> "none"]

\* createAgentBridge / createExternalAgentBridge (gpg-browser-worker.js) and
\* createScdaemonBridge (gpg-agent-server-worker.js), with the parent that
\* owns the bridge.  kind names the constructor.  The outbound channel
\* (gpgToAgent, agentToScdaemon) is the channel above; the inbound channel is
\* kept as its closed flag.  unit is the dependent worker as the parent's
\* message handlers have seen it; ready is what awaitReady returned;
\* posted lists the exit codes of the result messages the parent posted.
Bridge0(kind) ==
  [kind |-> kind, pc |-> "awaitReady", unit |-> "booting",
   readyPromise |-> "pending", resultPromise |-> "pending",
   agentReady |-> FALSE, agentDone |-> FALSE, didCloseWriteQueue |-> FALSE,
   ready |-> "none", readyTimedOut |-> FALSE,
   deviceInstalled |-> FALSE, exchanged |-> FALSE,
   exitCode |-> 0, sentBye |-> FALSE, i |-> 1,
   inClosed |-> FALSE, terminated |-> FALSE,
   shutResult |-> "none", timedOut |-> FALSE, shutReturned |-> FALSE,
   timeoutFlag |-> FALSE, posted |-> <<>>]

\* the command processCommand is working on while it awaits the fetch
\* collaborator: the fetch operation, the values still to fetch, the blocks
\* collected, the SOURCE value, and what the collaborator returned
NoCmd ==
  [line |-> <<>>, op |-> "none", values |-> <<>>, blocks |-> <<>>,
   source |-> <<>>, bodies |-> <<>>, keyserversBefore |-> <<>>]

\* the last command the engine finished: its line, every line written from
\* its dispatch to the return to the read loop, the kind of its terminating
\* line, the bodies the collaborator returned for it, the endpoint list
\* before and after, and the terminating kind of the command before it
NoLast ==
  [line |-> <<>>, resp |-> <<>>, term |-> "none", bodies |-> <<>>,
   failed |-> FALSE, keyserversBefore |-> <<>>, keyserversAfter |-> <<>>,
   prevTerm |-> "none"]

\* the dirmngr fetch worker before its 'start' message.  variant names the
\* file: "part_000" (BYE resets the session) or "part_007" (BYE closes).
\* inq holds the unread bytes of gpgToDirmngr, inClosed and outClosed the
\* closed flags of gpgToDirmngr and dirmngrToGpg, resp the lines written to
\* dirmngrToGpg for the command in progress, results the exit codes of the
\* result messages posted, peerClosed whether the peer closed gpgToDirmngr,
\* feed the set of lines the peer of this behaviour draws from.
Engine0(variant) ==
  [variant |-> variant, pc |-> "start", keyservers |-> <<>>,
   activeSession |-> FALSE, inq |-> <<>>, inClosed |-> FALSE,
   outClosed |-> FALSE, lineBytes |-> <<>>, fed |-> 0, resets |-> 0,
   cmd |-> NoCmd, resp |-> <<>>, readyPosted |-> FALSE,
   results |-> <<>>, byeSeen |-> FALSE, peerClosed |-> FALSE,
   last |-> NoLast, feed |-> "commands"]

Init ==
  /\ createSharedQueue
  /\ push = PushFrame0
  /\ pop = PopFrame0
  /\ closer = "idle"
  /\ hist = [pushed |-> <<>>, popped |-> <<>>, unreadAtClose |-> 0,
             closeCalls |-> 0]
  /\ wr = WriteFrame0
  /\ rd = ReadFrame0
  /\ pl = PollFrame0
  /\ watch = Watch0
  /\ sb = NoBridge
  /\ eng = NoEngine

(* ----------------------------- summarizeQueue ------------------------- *)
\* summarizeQueue is called by the worker at one end of the channel, on the
\* thread that also runs that end's pushes or pops.  In SnapSpec the variable
\* sb holds the frame of the call: who calls, the values loaded so far, the
\* summary returned, and (history) the number of bytes the ring held when
\* the other end's index was loaded.
NoSummary == [head |-> 0, tail |-> 0, size |-> 0, used |-> 0, closed |-> FALSE]

Snapshot0 ==
  [kind |-> "snapshot", pc |-> "idle", by |-> "none", head |-> 0, tail |-> 0,
   held |-> 0, ret |-> NoSummary]

\* the thread is not inside a summarizeQueue call
ThreadFree(thread) ==
  IF sb.kind = "snapshot" THEN sb.pc = "idle" \/ sb.by # thread ELSE TRUE

\* bytes whose head store is done and whose tail store is not
Held ==
  Len(hist.pushed) - Len(hist.popped) - (IF pop.pc = "notify" THEN 1 ELSE 0)

\* a variant that subtracts the indices without wrapping
summarizeQueue_NoWrap(head, tail, closed) ==
  [head |-> head, tail |-> tail, size |-> QSize, used |-> head - tail,
   closed |-> closed # 0]

\* const used = head >= tail ? head - tail : (size - tail) + head;
\* return { head, tail, size, used, closed }
summarizeQueue(head, tail, closed) ==
  [head |-> head, tail |-> tail, size |-> QSize,
   used |-> IF head >= tail THEN head - tail ELSE (QSize - tail) + head,
   closed |-> closed # 0]

\* a call of summarizeQueue(queue) by the producer's or the consumer's thread
summarizeQueueCall ==
  /\ sb.kind = "snapshot"
  /\ sb.pc = "idle"
  /\ \E by \in {"producer", "consumer"} :
       /\ by = "producer" => push.pc = "idle"
       /\ by = "consumer" => pop.pc = "idle"
       /\ sb' = [Snapshot0 EXCEPT !.pc = "ld_head", !.by = by]
  /\ UNCHANGED <<eng, ctrl, data, push, pop, closer, hist, wr, rd, pl, watch>>

\* const head = Atomics.load(queue.ctrl, 0);
\* const tail = Atomics.load(queue.ctrl, 1);
\* const closed = Atomics.load(queue.ctrl, 2) !== 0; ... return;
\* the caller then posts the summary and goes on
summarizeQueueLoad ==
  /\ sb.kind = "snapshot"
  /\ sb.pc \in {"ld_head", "ld_tail", "ld_closed", "return"}
  /\ sb' = CASE sb.pc = "ld_head" ->
                 [sb EXCEPT !.pc = "ld_tail", !.head = qHead,
                            !.held = IF sb.by = "consumer" THEN Held ELSE @]
            [] sb.pc = "ld_tail" ->
                 [sb EXCEPT !.pc = "ld_closed", !.tail = qTail,
                            !.held = IF sb.by = "producer" THEN Held ELSE @]
            [] sb.pc = "ld_closed" ->
                 [sb EXCEPT !.pc = "return", !.head = 0, !.tail = 0,
                            !.ret = summarizeQueue(sb.head, sb.tail, qClosed)]
            [] OTHER -> Snapshot0
  /\ UNCHANGED <<eng, ctrl, data, push, pop, closer, hist, wr, rd, pl, watch>>

(* ------------------------------ queueNotify --------------------------- *)
\* ctrl is an Int32Array: the largest value an element holds
Int32Max == 2147483647

\* Atomics.add on an Int32Array element wraps around in two's complement
AtomicsAdd1(v) == IF v = Int32Max THEN (-Int32Max) - 1 ELSE v + 1

\* a variant that adds one twice
queueNotify_AddsTwice(c) == [c EXCEPT ![3] = AtomicsAdd1(AtomicsAdd1(@))]

\* Atomics.add(ctrl, 3, 1); Atomics.notify(ctrl, 3)
queueNotify(c) == [c EXCEPT ![3] = AtomicsAdd1(@)]

(* ----------------------------- queuePushByte -------------------------- *)
\* a call of queuePushByte(queue, byteValue, shouldBlock) by the producer
queuePushByteCall ==
  /\ push.pc = "idle"
  /\ wr.pc = "idle"
  /\ ThreadFree("producer")
  /\ Len(hist.pushed) < MaxPush
  /\ \E b \in BOOLEAN :
       push' = [PushFrame0 EXCEPT !.pc = "ld_head",
                                  !.value = ByteOf(Payload(Len(hist.pushed))),
                                  !.shouldBlock = b,
                                  !.closedAtCall = (qClosed # 0),
                                  !.quiet = (pop.pc = "idle")]
  /\ UNCHANGED <<sb, eng, ctrl, data, pop, closer, hist, wr, rd, pl, watch>>

\* const head = Atomics.load(ctrl, 0)
queuePushByteLoadHead ==
  /\ push.pc = "ld_head"
  /\ push' = [push EXCEPT !.pc = "ld_tail", !.head = qHead]
  /\ UNCHANGED <<sb, eng, ctrl, data, pop, closer, hist, wr, rd, pl, watch>>

\* const tail = Atomics.load(ctrl, 1)
queuePushByteLoadTail ==
  /\ push.pc = "ld_tail"
  /\ push' = [push EXCEPT !.pc = "test", !.tail = qTail]
  /\ UNCHANGED <<sb, eng, ctrl, data, pop, closer, hist, wr, rd, pl, watch>>

\* a variant that never finds the ring full
HasRoom_NeverFull(head, tail) == TRUE

\* a variant that keeps two slots free
HasRoom_TwoFree(head, tail) ==
  (head + 1) % QSize # tail /\ (head + 2) % QSize # tail

\* const next = (head + 1) % size; next !== tail
HasRoom(head, tail) == (head + 1) % QSize # tail

\* if (next !== tail) { data[head] = value; ...
queuePushByteTest ==
  /\ push.pc = "test"
  /\ IF HasRoom(push.head, push.tail)
       THEN /\ data' = [data EXCEPT ![push.head] = push.value]
            /\ push' = [push EXCEPT !.pc = "st_head"]
       ELSE /\ data' = data
            /\ push' = [push EXCEPT !.pc = "ld_closed"]
  /\ UNCHANGED <<sb, eng, ctrl, pop, closer, hist, wr, rd, pl, watch>>

\* Atomics.store(ctrl, 0, next)
queuePushByteStoreHead ==
  /\ push.pc = "st_head"
  /\ ctrl' = [ctrl EXCEPT ![0] = (push.head + 1) % QSize]
  /\ push' = [push EXCEPT !.pc = "notify", !.stored = TRUE]
  /\ hist' = [hist EXCEPT !.pushed = Append(@, push.value)]
  /\ UNCHANGED <<sb, eng, data, pop, closer, wr, rd, pl, watch>>

\* queueNotify(queue); return true
queuePushByteNotify ==
  /\ push.pc = "notify"
  /\ ctrl' = queueNotify(ctrl)
  /\ push' = PushReturn("true")
  /\ UNCHANGED <<sb, eng, data, pop, closer, hist, wr, rd, pl, watch>>

\* a variant that tests the closed flag only for a non-blocking push
queuePushByteLoadClosed_BlockingIgnoresClose ==
  /\ push.pc = "ld_closed"
  /\ IF ~push.shouldBlock
       THEN push' = PushReturn("false")
       ELSE push' = [push EXCEPT !.pc = "ld_stamp"]
  /\ UNCHANGED <<sb, eng, ctrl, data, pop, closer, hist, wr, rd, pl, watch>>

\* if (Atomics.load(ctrl, 2) !== 0) return false; if (!shouldBlock) return false
queuePushByteLoadClosed ==
  /\ push.pc = "ld_closed"
  /\ IF qClosed # 0 \/ ~push.shouldBlock
       THEN push' = PushReturn("false")
       ELSE push' = [push EXCEPT !.pc = "ld_stamp"]
  /\ UNCHANGED <<sb, eng, ctrl, data, pop, closer, hist, wr, rd, pl, watch>>

\* const stamp = Atomics.load(ctrl, 3)
queuePushByteLoadStamp ==
  /\ push.pc = "ld_stamp"
  /\ push' = [push EXCEPT !.pc = "wait", !.stamp = qGeneration]
  /\ UNCHANGED <<sb, eng, ctrl, data, pop, closer, hist, wr, rd, pl, watch>>

\* Atomics.wait(ctrl, 3, stamp, 10): returns "not-equal" at once, "ok" when
\* notified, or "timed-out" after 10 ms; in every case the loop restarts
queuePushByteWait ==
  /\ push.pc = "wait"
  /\ push' = [push EXCEPT !.pc = "ld_head", !.head = 0, !.tail = 0,
                          !.stamp = 0,
                          !.waitsClosed = IF qClosed # 0 THEN @ + 1 ELSE @]
  /\ UNCHANGED <<sb, eng, ctrl, data, pop, closer, hist, wr, rd, pl, watch>>

\* the steps of a push that finds room in the ring
queuePushByteRoom ==
  \/ queuePushByteLoadHead \/ queuePushByteLoadTail \/ queuePushByteTest
  \/ queuePushByteStoreHead \/ queuePushByteNotify

queuePushByte ==
  \/ queuePushByteRoom
  \/ queuePushByteLoadClosed \/ queuePushByteLoadStamp \/ queuePushByteWait

(* ----------------------------- queuePopByte --------------------------- *)
\* a call of queuePopByte(queue, shouldBlock) by the consumer
queuePopByteCall ==
  /\ pop.pc = "idle"
  /\ rd.pc = "idle" /\ pl.pc = "idle" /\ watch.pc = "idle"
  /\ ThreadFree("consumer")
  /\ \E b \in BOOLEAN :
       pop' = [PopFrame0 EXCEPT !.pc = "ld_head", !.shouldBlock = b]
  /\ push' = [push EXCEPT !.quiet = FALSE]
  /\ rd' = ReadFrame0
  /\ pl' = PollFrame0
  /\ UNCHANGED <<sb, eng, ctrl, data, closer, hist, wr, watch>>

\* const head = Atomics.load(ctrl, 0)
queuePopByteLoadHead ==
  /\ pop.pc = "ld_head"
  /\ pop' = [pop EXCEPT !.pc = "ld_tail", !.head = qHead]
  /\ UNCHANGED <<sb, eng, ctrl, data, push, closer, hist, wr, rd, pl, watch>>

\* const tail = Atomics.load(ctrl, 1)
queuePopByteLoadTail ==
  /\ pop.pc = "ld_tail"
  /\ pop' = [pop EXCEPT !.pc = "test", !.tail = qTail]
  /\ UNCHANGED <<sb, eng, ctrl, data, push, closer, hist, wr, rd, pl, watch>>

\* if (tail !== head) { const value = data[tail]; ...
queuePopByteTest ==
  /\ pop.pc = "test"
  /\ IF pop.tail # pop.head
       THEN pop' = [pop EXCEPT !.pc = "st_tail", !.value = data[pop.tail]]
       ELSE pop' = [pop EXCEPT !.pc = "ld_closed"]
  /\ UNCHANGED <<sb, eng, ctrl, data, push, closer, hist, wr, rd, pl, watch>>

\* const next = (tail + 1) % size; Atomics.store(ctrl, 1, next)
queuePopByteStoreTail ==
  /\ pop.pc = "st_tail"
  /\ ctrl' = [ctrl EXCEPT ![1] = (pop.tail + 1) % QSize]
  /\ pop' = [pop EXCEPT !.pc = "notify"]
  /\ UNCHANGED <<sb, eng, data, push, closer, hist, wr, rd, pl, watch>>

\* queueNotify(queue); return value
queuePopByteNotify ==
  /\ pop.pc = "notify"
  /\ ctrl' = queueNotify(ctrl)
  /\ pop' = PopReturn(RetByte(pop.value))
  /\ hist' = [hist EXCEPT !.popped = Append(@, pop.value),
                          !.unreadAtClose = IF @ > 0 THEN @ - 1 ELSE 0]
  /\ UNCHANGED <<sb, eng, data, push, closer, wr, rd, pl, watch>>

\* a variant that tests the closed flag only for a non-blocking pop
queuePopByteLoadClosed_BlockingIgnoresClose ==
  /\ pop.pc = "ld_closed"
  /\ IF ~pop.shouldBlock
       THEN pop' = PopReturn(IF qClosed # 0 THEN RetNull ELSE RetUndefined)
       ELSE pop' = [pop EXCEPT !.pc = "ld_stamp"]
  /\ UNCHANGED <<sb, eng, ctrl, data, push, closer, hist, wr, rd, pl, watch>>

\* if (Atomics.load(ctrl, 2) !== 0) return null;
\* if (!shouldBlock) return undefined
queuePopByteLoadClosed ==
  /\ pop.pc = "ld_closed"
  /\ IF qClosed # 0
       THEN pop' = PopReturn(RetNull)
       ELSE IF ~pop.shouldBlock
         THEN pop' = PopReturn(RetUndefined)
         ELSE pop' = [pop EXCEPT !.pc = "ld_stamp"]
  /\ UNCHANGED <<sb, eng, ctrl, data, push, closer, hist, wr, rd, pl, watch>>

\* const stamp = Atomics.load(ctrl, 3)
queuePopByteLoadStamp ==
  /\ pop.pc = "ld_stamp"
  /\ pop' = [pop EXCEPT !.pc = "wait", !.stamp = qGeneration]
  /\ UNCHANGED <<sb, eng, ctrl, data, push, closer, hist, wr, rd, pl, watch>>

\* Atomics.wait(ctrl, 3, stamp, 10), then the loop restarts
queuePopByteWait ==
  /\ pop.pc = "wait"
  /\ pop' = [pop EXCEPT !.pc = "ld_head", !.head = 0, !.tail = 0,
                        !.stamp = 0,
                        !.waitsClosed = IF qClosed # 0 THEN @ + 1 ELSE @]
  /\ UNCHANGED <<sb, eng, ctrl, data, push, closer, hist, wr, rd, pl, watch>>

\* the steps a pop with shouldBlock = false can take
queuePopByteNoWait ==
  \/ queuePopByteLoadHead \/ queuePopByteLoadTail \/ queuePopByteTest
  \/ queuePopByteStoreTail \/ queuePopByteNotify
  \/ queuePopByteLoadClosed

queuePopByte ==
  \/ queuePopByteNoWait \/ queuePopByteLoadStamp \/ queuePopByteWait

(* ------------------------------ queueClose ---------------------------- *)
\* a variant that also empties the ring
queueCloseStore_EmptiesRing ==
  /\ closer = "idle"
  /\ hist.closeCalls < MaxClose
  /\ ctrl' = [ctrl EXCEPT ![2] = 1, ![1] = ctrl[0]]
  /\ closer' = "notify"
  /\ hist' = [hist EXCEPT !.closeCalls = @ + 1,
                          !.unreadAtClose =
                             IF qClosed = 0
                               THEN Len(hist.pushed) - Len(hist.popped)
                               ELSE @]
  /\ UNCHANGED <<sb, eng, data, push, pop, wr, rd, pl, watch>>

\* Atomics.store(queue.ctrl, 2, 1)
queueCloseStore ==
  /\ closer = "idle"
  /\ hist.closeCalls < MaxClose
  /\ ctrl' = [ctrl EXCEPT ![2] = 1]
  /\ closer' = "notify"
  /\ hist' = [hist EXCEPT !.closeCalls = @ + 1,
                          !.unreadAtClose =
                             IF qClosed = 0
                               THEN Len(hist.pushed) - Len(hist.popped)
                               ELSE @]
  /\ UNCHANGED <<sb, eng, data, push, pop, wr, rd, pl, watch>>

\* queueNotify(queue)
queueCloseNotify ==
  /\ closer = "notify"
  /\ ctrl' = queueNotify(ctrl)
  /\ closer' = "idle"
  /\ UNCHANGED <<sb, eng, data, push, pop, hist, wr, rd, pl, watch>>

queueClose == queueCloseStore \/ queueCloseNotify

(* --------------------------- device: write ---------------------------- *)
POLLIN == 1
POLLOUT == 4
POLLHUP == 16
EAGAIN == 6

\* mask & bit, for a single-bit constant
HasBit(mask, bit) == (mask \div bit) % 2 = 1

\* write(stream, buffer, offset, length) { let count = 0; ...
\* buffer holds the next bytes of the producer's stream
write ==
  /\ wr.pc = "idle" /\ push.pc = "idle"
  /\ \E len \in 0..MaxLen :
       /\ Len(hist.pushed) + len <= MaxPush
       /\ wr' = [WriteFrame0 EXCEPT !.pc = "loop", !.length = len,
                                    !.start = Len(hist.pushed)]
  /\ UNCHANGED <<sb, eng, chanVars, rd, pl, watch>>

\* while (count < length) { agentBridge.writeByte(buffer[offset + count]) ...
\* writeByte: queuePushByte(gpgToAgent, ch, true);  after the loop: return count
writeLoop ==
  /\ wr.pc = "loop"
  /\ IF wr.count < wr.length
       THEN /\ wr' = [wr EXCEPT !.pc = "in_push"]
            /\ push' = [PushFrame0 EXCEPT
                          !.pc = "ld_head",
                          !.value = ByteOf(Payload(wr.start + wr.count)),
                          !.shouldBlock = TRUE,
                          !.closedAtCall = (qClosed # 0),
                          !.quiet = (pop.pc = "idle")]
       ELSE /\ wr' = [wr EXCEPT !.pc = "idle", !.ret = DevCount(wr.count)]
            /\ push' = push
  /\ UNCHANGED <<sb, eng, ctrl, data, pop, closer, hist, rd, pl, watch>>

\* writeByte after queuePushByte returned: a refused push is only logged
\* (emitStderrAndStatus / postDebug), then write() does count += 1
writeByte ==
  /\ wr.pc = "in_push" /\ push.pc = "idle"
  /\ wr' = [wr EXCEPT !.pc = "loop", !.count = @ + 1,
                      !.failed = @ \/ (push.ret = "false")]
  /\ push' = PushFrame0
  /\ UNCHANGED <<sb, eng, ctrl, data, pop, closer, hist, rd, pl, watch>>

(* --------------------------- device: read ----------------------------- *)
\* queueHasData: head = Atomics.load(ctrl, 0); tail = Atomics.load(ctrl, 1);
\* return head !== tail.  Its callers run on the consumer thread, the only
\* writer of ctrl[1], so the tail it loads is the tail at the load of head
\* and the two loads are one step.
queueHasData == qHead # qTail

\* the consumer thread is outside every call and timer callback
ConsumerIdle ==
  pop.pc = "idle" /\ rd.pc = "idle" /\ pl.pc = "idle" /\ watch.pc = "idle"

\* read(stream, buffer, offset, length) { let count = 0; ...
read ==
  /\ ConsumerIdle
  /\ \E len \in 0..MaxLen :
       rd' = [ReadFrame0 EXCEPT !.pc = "loop", !.length = len]
  /\ pl' = PollFrame0
  /\ UNCHANGED <<sb, eng, chanVars, wr, watch>>

\* a variant that reads with readByte(), whose shouldBlock defaults to true
readAvailableByteShouldBlock_Blocking == TRUE

\* readAvailableByte() { queuePopByte(agentToGpg, false) }
readAvailableByteShouldBlock == FALSE

\* while (count < length) { const byteValue = bridge.readAvailableByte() ...
readLoop ==
  /\ rd.pc = "loop"
  /\ IF rd.count < rd.length
       THEN /\ rd' = [rd EXCEPT !.pc = "in_pop"]
            /\ pop' = [PopFrame0 EXCEPT
                         !.pc = "ld_head",
                         !.shouldBlock = readAvailableByteShouldBlock]
            /\ push' = [push EXCEPT !.quiet = FALSE]
       ELSE /\ rd' = [rd EXCEPT !.pc = "after_loop"]
            /\ pop' = pop
            /\ push' = push
  /\ UNCHANGED <<sb, eng, ctrl, data, closer, hist, wr, pl, watch>>

\* if (byteValue === undefined || byteValue === null) break;
\* buffer[offset + count] = byteValue; count += 1
readAvailableByte ==
  /\ rd.pc = "in_pop" /\ pop.pc = "idle"
  /\ IF pop.ret.kind \in {"undefined", "null"}
       THEN rd' = [rd EXCEPT !.pc = "after_loop"]
       ELSE rd' = [rd EXCEPT !.pc = "has_data",
                             !.buf = Append(@, pop.ret.value),
                             !.count = @ + 1]
  /\ pop' = PopFrame0
  /\ UNCHANGED <<sb, eng, ctrl, data, push, closer, hist, wr, pl, watch>>

\* if (!bridge.hasReadableData()) break
readHasData ==
  /\ rd.pc = "has_data"
  /\ rd' = [rd EXCEPT !.pc = IF queueHasData THEN "loop" ELSE "after_loop"]
  /\ UNCHANGED <<sb, eng, chanVars, wr, pl, watch>>

\* if (count === 0 && !bridge.isReadableClosed()) throw new FS.ErrnoError(EAGAIN);
\* return count
readReturn ==
  /\ rd.pc = "after_loop"
  /\ IF rd.count = 0
       THEN IF qClosed = 0
              THEN rd' = [rd EXCEPT !.pc = "idle", !.ret = DevErrno(EAGAIN),
                                    !.sawClosed = FALSE]
              ELSE rd' = [rd EXCEPT !.pc = "idle", !.ret = DevCount(rd.count),
                                    !.sawClosed = TRUE]
       ELSE rd' = [rd EXCEPT !.pc = "idle", !.ret = DevCount(rd.count)]
  /\ UNCHANGED <<sb, eng, chanVars, wr, pl, watch>>

(* --------------------------- device: poll ----------------------------- *)
\* the peer's stdout handler feeding the polled channel:
\* queuePushByte(bridge.agentToGpg, ch, true)
stdoutPush ==
  /\ push.pc = "idle" /\ wr.pc = "idle"
  /\ Len(hist.pushed) < MaxPeerPush
  /\ push' = [PushFrame0 EXCEPT !.pc = "ld_head",
                                !.value = ByteOf(Payload(Len(hist.pushed))),
                                !.shouldBlock = TRUE]
  /\ UNCHANGED <<sb, eng, ctrl, data, pop, closer, hist, wr, rd, pl, watch>>

\* poll(stream, timeout, notifyCallback) { let mask = POLLOUT; ...
\* cb is the identity of the callback passed, 0 when none is passed
poll ==
  /\ ConsumerIdle
  /\ \E withCb \in BOOLEAN :
       /\ withCb => watch.nextId <= MaxReg
       /\ pl' = [PollFrame0 EXCEPT
                   !.pc = "has_data", !.mask = POLLOUT,
                   !.cb = IF withCb THEN watch.nextId ELSE 0,
                   !.dataAtCall = (qHead # qTail),
                   !.closedAtCall = (qClosed # 0)]
       /\ watch' = [watch EXCEPT !.nextId = IF withCb THEN @ + 1 ELSE @]
  /\ rd' = ReadFrame0
  /\ UNCHANGED <<sb, eng, chanVars, wr>>

\* if (bridge.hasReadableData()) mask |= POLLIN
pollHasData ==
  /\ pl.pc = "has_data"
  /\ pl' = [pl EXCEPT !.pc = "ld_closed",
                      !.mask = IF queueHasData THEN @ + POLLIN ELSE @]
  /\ UNCHANGED <<sb, eng, chanVars, wr, rd, watch>>

\* readableHandlers.push(callback); ensureReadableWatcher()
registerReadableHandler(w, cb) ==
  [w EXCEPT !.readableHandlers = Append(@, cb), !.readableWatcherId = TRUE]

\* a variant that never reports the hang-up
pollHupBit_Never(closed) == 0

\* if (bridge.isReadableClosed()) mask |= POLLHUP
pollHupBit(closed) == IF closed THEN POLLHUP ELSE 0

\* if (mask === POLLOUT && typeof notifyCallback === 'function')
\*   bridge.registerReadableHandler(notifyCallback);
\* return mask
pollReturn ==
  /\ pl.pc = "ld_closed"
  /\ LET mask == pl.mask + pollHupBit(qClosed # 0)
     IN /\ pl' = [pl EXCEPT !.pc = "idle", !.mask = mask, !.returned = TRUE]
        /\ watch' = IF mask = POLLOUT /\ pl.cb # 0
                      THEN registerReadableHandler(watch, pl.cb)
                      ELSE watch
  /\ UNCHANGED <<sb, eng, chanVars, wr, rd>>

(* ------------------------- readability watcher ------------------------ *)
\* the setInterval callback starts when the consumer thread is free:
\* const hasData = queueHasData(agentToGpg)
watcherHasData ==
  /\ ConsumerIdle
  /\ watch.readableWatcherId
  /\ watch' = [watch EXCEPT !.pc = "ld_closed", !.hasData = queueHasData]
  /\ rd' = ReadFrame0
  /\ pl' = PollFrame0
  /\ UNCHANGED <<sb, eng, chanVars, wr>>

\* while (readableHandlers.length > 0) { handler = readableHandlers.shift();
\*   handler(mask) }: every registered callback is called once and dropped
notifyReadableHandlers(w) ==
  [w EXCEPT !.readableHandlers = <<>>,
            !.invoked = [i \in 1..MaxReg |->
                           IF \E k \in 1..Len(w.readableHandlers) :
                                w.readableHandlers[k] = i
                             THEN @[i] + 1 ELSE @[i]]]

\* the ids held in readableHandlers
Registered(w) == {w.readableHandlers[k] : k \in 1..Len(w.readableHandlers)}

\* a level-triggered variant
becameReadable_Level(hasData, lastReadableState) == hasData

\* const becameReadable = hasData && !lastReadableState
becameReadable(hasData, lastReadableState) == hasData /\ ~lastReadableState

\* const becameClosed = closed && !lastClosedState
becameClosed(closed, lastClosedState) == closed /\ ~lastClosedState

\* const closed = Atomics.load(ctrl, 2) !== 0;
\* lastReadableState = hasData; lastClosedState = closed;
\* if (becameReadable || becameClosed) { mask = ...; if (mask !== 0) notify }
watcherSample ==
  /\ watch.pc = "ld_closed"
  /\ LET hasData == watch.hasData
         closed == qClosed # 0
         mask == (IF hasData THEN POLLIN ELSE 0) + (IF closed THEN POLLHUP ELSE 0)
         fire == /\ \/ becameReadable(hasData, watch.lastReadableState)
                    \/ becameClosed(closed, watch.lastClosedState)
                 /\ mask # 0
         edge == \/ hasData /\ ~watch.prevSample.hasData
                 \/ closed /\ ~watch.prevSample.closed
         w1 == [watch EXCEPT !.pc = "idle", !.hasData = FALSE,
                             !.lastReadableState = hasData,
                             !.lastClosedState = closed,
                             !.prevSample = [hasData |-> hasData,
                                             closed |-> closed],
                             !.lastTick =
                               [edge |-> edge,
                                before |-> IF edge THEN Registered(watch)
                                                   ELSE {},
                                fired |-> IF fire THEN Registered(watch)
                                                  ELSE {}]]
     IN watch' = IF fire THEN notifyReadableHandlers(w1) ELSE w1
  /\ UNCHANGED <<sb, eng, chanVars, wr, rd, pl>>

ensureReadableWatcher == watcherHasData \/ watcherSample

(* --------------------------- session bridge --------------------------- *)
\* the termination command the parent writes: for (const byteValue of
\* [66, 89, 69, 10])
TermSeq == <<66, 89, 69, 10>>

\* exit codes the parent's program can end with; NaN stands for a value
\* that is not a finite number
NaN == 0 - 1
ExitCodes == {0, 2, NaN}

\* the parent is inside an await (or between tasks), so that the event loop
\* can run the worker's message and error listeners
BridgeAtAwait == sb.pc \in {"awaitReady", "preRun", "run", "shutWait"}

BridgeHasWorker == sb.kind \in {"agent", "scdaemon"} /\ ~sb.terminated

\* worker.addEventListener('message'): messageData.type === 'ready'
onWorkerReady ==
  /\ BridgeHasWorker /\ BridgeAtAwait
  /\ sb.unit = "booting"
  /\ sb' = [sb EXCEPT !.unit = "ready",
                      !.agentReady = IF sb.kind = "agent" THEN TRUE ELSE @,
                      !.readyPromise = IF @ = "pending" THEN "true" ELSE @]
  /\ UNCHANGED <<chanVars, devVars, eng>>

\* messageData.type === 'result': agentDone = true; resolveResult(..);
\* createAgentBridge also has: if (!agentReady) resolveReady(false)
onWorkerResult ==
  /\ BridgeHasWorker /\ BridgeAtAwait
  /\ sb.unit \in {"booting", "ready"}
  /\ sb' = [sb EXCEPT !.unit = "done", !.agentDone = TRUE,
                      !.resultPromise = IF @ = "pending" THEN "resolved" ELSE @,
                      !.readyPromise =
                         IF sb.kind = "agent" /\ ~sb.agentReady /\ @ = "pending"
                           THEN "false" ELSE @]
  /\ UNCHANGED <<chanVars, devVars, eng>>

\* worker.addEventListener('error'): rejectResult(..); rejectReady(..)
onWorkerError ==
  /\ BridgeHasWorker /\ BridgeAtAwait
  /\ sb.unit \in {"booting", "ready"}
  /\ sb' = [sb EXCEPT !.unit = "failed",
                      !.resultPromise = IF @ = "pending" THEN "rejected" ELSE @,
                      !.readyPromise = IF @ = "pending" THEN "rejected" ELSE @]
  /\ UNCHANGED <<chanVars, devVars, eng>>

\* the first step of shutdownAndWait: where it goes from its entry.
\* createAgentBridge / createScdaemonBridge: if (!agentDone) { push .. };
\* queueClose.  createExternalAgentBridge: if (!didCloseWriteQueue) { .. }
shutdownEntry(b) ==
  IF b.kind = "external"
    THEN IF b.didCloseWriteQueue
           THEN [b EXCEPT !.pc = "shutFinally"]
           ELSE [b EXCEPT !.pc = "shutPush", !.didCloseWriteQueue = TRUE,
                          !.sentBye = TRUE, !.i = 1]
    ELSE IF b.agentDone
           THEN [b EXCEPT !.pc = "shutClose"]
           ELSE [b EXCEPT !.pc = "shutPush", !.sentBye = TRUE, !.i = 1]

\* finish(exitCode) of the parent: postResult awaits shutdownAndWait(2500)
\* (gpg-browser-worker.js); finish of gpg-agent-server-worker.js starts
\* shutdownAndWait(300) without awaiting it
finishWith(b, code) == shutdownEntry([b EXCEPT !.exitCode = code])

\* handleRun after awaitReady(12000) returned: the browser worker only
\* reports a missing ready signal (emitStderrAndStatus) and goes on;
\* handleStart of the agent server worker calls finish(2, ..) and returns
afterAwaitReady(b, ready) ==
  IF b.kind = "scdaemon" /\ ~ready
    THEN finishWith([b EXCEPT !.ready = "false"], 2)
    ELSE [b EXCEPT !.ready = IF ready THEN "true" ELSE "false",
                   !.pc = "preRun"]

\* awaitReady(timeoutMs): setTimeout(() => resolve(false), timeoutMs) wins
\* the race
awaitReadyTimeout ==
  /\ sb.kind \in {"agent", "scdaemon"}
  /\ sb.pc = "awaitReady" /\ sb.readyPromise = "pending"
  /\ sb' = afterAwaitReady([sb EXCEPT !.readyTimedOut = TRUE], FALSE)
  /\ UNCHANGED <<chanVars, devVars, eng>>

\* awaitReady: readyPromise settles first: return Boolean(ready), or false
\* from the catch; createExternalAgentBridge: async awaitReady() { return true }
awaitReadyReturn ==
  /\ sb.pc = "awaitReady"
  /\ \/ sb.kind = "external" /\ sb' = afterAwaitReady(sb, TRUE)
     \/ /\ sb.kind \in {"agent", "scdaemon"}
        /\ sb.readyPromise # "pending"
        /\ sb' = afterAwaitReady(sb, sb.readyPromise = "true")
  /\ UNCHANGED <<chanVars, devVars, eng>>

awaitReady == awaitReadyTimeout \/ awaitReadyReturn

\* preRun: if (agentBridge && envObj) { FS.registerDevice(..); FS.mkdev(..);
\* envObj.GNUPG_WASM_AGENT_FD = .. } else if (agentBridge && !envObj) postError
preRun ==
  /\ sb.pc = "preRun"
  /\ \E envObj \in BOOLEAN :
       sb' = [sb EXCEPT !.pc = "run", !.deviceInstalled = envObj]
  /\ UNCHANGED <<chanVars, devVars, eng>>

\* the parent's program reads or writes the installed device
deviceExchange ==
  /\ sb.pc = "run" /\ sb.deviceInstalled /\ ~sb.exchanged
  /\ sb' = [sb EXCEPT !.exchanged = TRUE]
  /\ UNCHANGED <<chanVars, devVars, eng>>

\* the parent's program ends: finish(exitCode)
finish ==
  /\ sb.pc = "run"
  /\ \E code \in ExitCodes : sb' = finishWith(sb, code)
  /\ UNCHANGED <<chanVars, devVars, eng>>

\* shutdownAndWait: queuePushByte(gpgToAgent, byteValue, false) for the next
\* byte of [66, 89, 69, 10]; the result of the push is not looked at
shutdownPush ==
  /\ sb.pc = "shutPush" /\ push.pc = "idle" /\ wr.pc = "idle"
  /\ push' = [PushFrame0 EXCEPT !.pc = "ld_head",
                                !.value = ByteOf(TermSeq[sb.i]),
                                !.shouldBlock = FALSE,
                                !.closedAtCall = (qClosed # 0),
                                !.quiet = (pop.pc = "idle")]
  /\ sb' = [sb EXCEPT !.i = @ + 1,
                      !.pc = IF sb.i = Len(TermSeq) THEN "shutClose" ELSE @]
  /\ UNCHANGED <<ctrl, data, pop, closer, hist, devVars, eng>>

\* shutdownAndWait: queueClose(gpgToAgent): Atomics.store(queue.ctrl, 2, 1)
shutdownQueueCloseStore ==
  /\ sb.pc = "shutClose" /\ push.pc = "idle"
  /\ ctrl' = [ctrl EXCEPT ![2] = 1]
  /\ hist' = [hist EXCEPT !.closeCalls = @ + 1,
                          !.unreadAtClose =
                             IF qClosed = 0
                               THEN Len(hist.pushed) - Len(hist.popped)
                               ELSE @]
  /\ sb' = [sb EXCEPT !.pc = "shutNotify"]
  /\ UNCHANGED <<data, push, pop, closer, devVars, eng>>

\* queueClose(gpgToAgent): queueNotify(queue).  Then the spawned bridges
\* start the timer and await the race; the external bridge goes on to its
\* cleanup; finish of the agent server worker got its promise back and
\* posts its result
shutdownQueueCloseNotify ==
  /\ sb.pc = "shutNotify"
  /\ ctrl' = queueNotify(ctrl)
  /\ sb' = [sb EXCEPT !.pc = CASE sb.kind = "external" -> "shutFinally"
                               [] sb.kind = "scdaemon" -> "post"
                               [] OTHER -> "shutWait"]
  /\ UNCHANGED <<data, push, pop, closer, hist, devVars, eng>>

\* await Promise.race([resultPromise, timeoutPromise]): the timer wins and
\* resolves null
shutdownTimeout ==
  /\ sb.pc = "shutWait" /\ sb.resultPromise = "pending"
  /\ sb' = [sb EXCEPT !.pc = "shutFinally", !.shutResult = "null",
                      !.timedOut = TRUE]
  /\ UNCHANGED <<chanVars, devVars, eng>>

\* the race settles with the unit's result, or rejects: catch { return null }
shutdownResult ==
  /\ sb.pc = "shutWait" /\ sb.resultPromise # "pending"
  /\ sb' = [sb EXCEPT !.pc = "shutFinally",
                      !.shutResult = IF sb.resultPromise = "resolved"
                                       THEN "result" ELSE "null"]
  /\ UNCHANGED <<chanVars, devVars, eng>>

\* whether shutdownAndWait closes the inbound channel and stops the worker:
\* finally { .. queueClose(agentToGpg); worker.terminate(); } in the bridges
\* that spawned their worker; the external bridge has neither statement
shutdownStopsUnit(kind) == kind # "external"

\* finally { if (readableWatcherId !== null) { clearInterval(..) } ..
\* queueClose(agentToGpg); worker.terminate(); } and the return
shutdownFinally ==
  /\ sb.pc = "shutFinally"
  /\ watch' = [watch EXCEPT !.readableWatcherId = FALSE]
  /\ sb' = [sb EXCEPT !.pc = IF sb.kind = "scdaemon" THEN "done" ELSE "post",
                      !.shutReturned = TRUE,
                      !.shutResult = IF sb.kind = "external" THEN "result" ELSE @,
                      !.inClosed = IF shutdownStopsUnit(sb.kind) THEN TRUE ELSE @,
                      !.terminated =
                         IF shutdownStopsUnit(sb.kind) THEN TRUE ELSE @]
  /\ UNCHANGED <<chanVars, wr, rd, pl, eng>>

IsFinite(x) == x # NaN

\* a variant that turns a shutdown timeout into exit code 1
resultExitCode_TimeoutFails(exitCode) ==
  IF sb.timedOut \/ ~IsFinite(exitCode) THEN 1 ELSE exitCode

\* exitCode: Number.isFinite(exitCode) ? exitCode : 1
resultExitCode(exitCode) == IF IsFinite(exitCode) THEN exitCode ELSE 1

\* postResult: agentInfo.timeout = true and a status line when
\* shutdownAndWait returned no result object; postMessage({ type: 'result',
\* exitCode: .. })
postResult ==
  /\ sb.pc = "post"
  /\ sb' = [sb EXCEPT !.pc = IF sb.kind = "scdaemon" THEN "shutWait" ELSE "done",
                      !.timeoutFlag = (sb.kind # "scdaemon"
                                        /\ sb.shutResult = "null"),
                      !.posted = Append(@, resultExitCode(sb.exitCode))]
  /\ UNCHANGED <<chanVars, devVars, eng>>

shutdownAndWait ==
  \/ shutdownPush \/ shutdownQueueCloseStore \/ shutdownQueueCloseNotify
  \/ shutdownTimeout \/ shutdownResult \/ shutdownFinally

(* ---------------------- Assuan engine: text helpers ------------------- *)
\* Text is a sequence of character codes, bytes a sequence of 0..255.
Min(S) == CHOOSE x \in S : \A y \in S : x <= y
Max(S) == CHOOSE x \in S : \A y \in S : x >= y

\* the characters String.prototype.trim and the regexp class \s remove,
\* among the codes below 128
IsSpace(c) == c \in {9, 10, 11, 12, 13, 32}

\* textDecoder.decode(new Uint8Array(lineBytes)): a byte below 0x80 is its
\* character; a byte from 0x80 on that starts no valid sequence decodes to
\* U+FFFD
textDecoderDecode(bytes) ==
  [i \in 1..Len(bytes) |-> IF bytes[i] < 128 THEN bytes[i] ELSE 65533]

\* textEncoder.encode(text): UTF-8, for the characters textDecoderDecode
\* makes (evaluated by halves)
RECURSIVE textEncoderEncode(_)
textEncoderEncode(text) ==
  IF text = <<>> THEN <<>>
  ELSE IF Len(text) = 1
    THEN (IF text[1] < 128 THEN <<text[1]>> ELSE <<239, 191, 189>>)
  ELSE LET h == Len(text) \div 2
       IN  textEncoderEncode(SubSeq(text, 1, h))
             \o textEncoderEncode(SubSeq(text, h + 1, Len(text)))

\* String.prototype.trim
Trim(s) ==
  LET keep == {i \in 1..Len(s) : ~IsSpace(s[i])}
  IN  IF keep = {} THEN <<>> ELSE SubSeq(s, Min(keep), Max(keep))

\* s.indexOf(c), counted from 1; 0 when c does not occur
IndexOf(s, c) ==
  LET at == {i \in 1..Len(s) : s[i] = c}
  IN  IF at = {} THEN 0 ELSE Min(at)

\* Array.prototype.indexOf for a list of tokens, counted from 1
IndexOfToken(tokens, t) ==
  LET at == {i \in 1..Len(tokens) : tokens[i] = t}
  IN  IF at = {} THEN 0 ELSE Min(at)

\* a variant that leaves lower-case letters as they are
toUpperCase_Identity(s) == s

\* String.prototype.toUpperCase, for the codes below 128
toUpperCase(s) ==
  [i \in 1..Len(s) |-> IF s[i] \in 97..122 THEN s[i] - 32 ELSE s[i]]

\* String.prototype.toLowerCase, for the codes below 128
toLowerCase(s) ==
  [i \in 1..Len(s) |-> IF s[i] \in 65..90 THEN s[i] + 32 ELSE s[i]]

StartsWith(s, p) == Len(s) >= Len(p) /\ SubSeq(s, 1, Len(p)) = p

\* splitTokens(raw): raw.trim().split(/\s+/), [] for blank text
RECURSIVE splitTokens(_)
splitTokens(raw) ==
  LET t == Trim(raw)
      sp == {i \in 1..Len(t) : IsSpace(t[i])}
  IN  IF t = <<>> THEN <<>>
      ELSE IF sp = {} THEN <<t>>
      ELSE <<SubSeq(t, 1, Min(sp) - 1)>>
             \o splitTokens(SubSeq(t, Min(sp) + 1, Len(t)))

\* tokens.join(' ')
RECURSIVE joinTokens(_)
joinTokens(tokens) ==
  IF tokens = <<>> THEN <<>>
  ELSE IF Len(tokens) = 1 THEN tokens[1]
  ELSE tokens[1] \o <<32>> \o joinTokens(Tail(tokens))

\* '--'
DashDash == <<45, 45>>


\* parseDelimitedArgs(raw): the tokens before and after the first '--';
\* without a '--' every token is an option and there are no values
parseDelimitedArgs(raw) ==
  LET tokens == splitTokens(raw)
      delimiter == IndexOfToken(tokens, DashDash)
  IN  IF delimiter = 0
        THEN [options |-> tokens, values |-> <<>>]
        ELSE [options |-> SubSeq(tokens, 1, delimiter - 1),
              values |-> SubSeq(tokens, delimiter + 1, Len(tokens))]

IsHexDigit(c) == c \in (48..57) \cup (65..70) \cup (97..102)

HexValue(c) ==
  IF c \in 48..57 THEN c - 48 ELSE IF c \in 65..70 THEN c - 55 ELSE c - 87

\* decodeURIComponent throws on a '%' that is not followed by two hex digits
\* and on an escaped byte from 0x80 on that starts no valid UTF-8 sequence
UriMalformed(s) ==
  \E i \in 1..Len(s) :
    /\ s[i] = 37
    /\ \/ i + 2 > Len(s)
       \/ ~IsHexDigit(s[i + 1]) \/ ~IsHexDigit(s[i + 2])
       \/ HexValue(s[i + 1]) >= 8

\* decodeURIComponent of a text that is not malformed (evaluated by halves,
\* never cutting a %XX triple)
RECURSIVE uriDecode(_)
uriDecode(s) ==
  IF s = <<>> THEN <<>>
  ELSE IF Len(s) <= 3
    THEN IF s[1] = 37
           THEN <<16 * HexValue(s[2]) + HexValue(s[3])>>
           ELSE <<s[1]>> \o uriDecode(Tail(s))
  ELSE LET h == Len(s) \div 2
           c == IF s[h] = 37 THEN h - 1
                ELSE IF s[h - 1] = 37 THEN h - 2 ELSE h
           cut == IF c = 0 THEN 3 ELSE c
       IN  uriDecode(SubSeq(s, 1, cut)) \o uriDecode(SubSeq(s, cut + 1, Len(s)))

\* String(value).replace(/\+/g, '%20')
RECURSIVE plusNormalized(_)
plusNormalized(s) ==
  IF s = <<>> THEN <<>>
  ELSE IF Len(s) = 1
    THEN (IF s[1] = 43 THEN <<37, 50, 48>> ELSE s)
  ELSE LET h == Len(s) \div 2
       IN  plusNormalized(SubSeq(s, 1, h))
             \o plusNormalized(SubSeq(s, h + 1, Len(s)))

\* decodePercentPlus(value): try { return decodeURIComponent(plusNormalized) }
\* catch { return String(value) }
decodePercentPlus(value) ==
  IF UriMalformed(plusNormalized(value))
    THEN value
    ELSE uriDecode(plusNormalized(value))

\* the literals of normalizeKeyserver
Uri ==
  \* 'hkps://keys.openpgp.org'
  [DefaultKeyserver |-> <<104, 107, 112, 115, 58, 47, 47, 107, 101, 121,
       115, 46, 111, 112, 101, 110, 112, 103, 112, 46, 111, 114, 103>>,
  \* '://'
   SchemeSep |-> <<58, 47, 47>>,
  \* 'hkp://'
   Hkp |-> <<104, 107, 112, 58, 47, 47>>,
  \* 'hkps://'
   Hkps |-> <<104, 107, 112, 115, 58, 47, 47>>,
  \* 'http://'
   Http |-> <<104, 116, 116, 112, 58, 47, 47>>,
  \* 'https://'
   Https |-> <<104, 116, 116, 112, 115, 58, 47, 47>>]

\* 'https://keys.openpgp.org'
DefaultEndpoint ==
  <<104, 116, 116, 112, 115, 58, 47, 47, 107, 101, 121, 115, 46, 111, 112,
    101, 110, 112, 103, 112, 46, 111, 114, 103>>


IsAlpha(c) == c \in (65..90) \cup (97..122)

\* /^[a-z][a-z0-9+.-]*:\/\//i.test(value)
HasScheme(value) ==
  \E k \in 1..Len(value) :
    /\ IsAlpha(value[1])
    /\ \A j \in 2..k : IsAlpha(value[j]) \/ value[j] \in (48..57) \cup {43, 45, 46}
    /\ StartsWith(SubSeq(value, k + 1, Len(value)), Uri.SchemeSep)

\* normalizeKeyserver(input)
normalizeKeyserver(input) ==
  LET v1 == IF Trim(input) = <<>> THEN Uri.DefaultKeyserver ELSE Trim(input)
      v2 == IF HasScheme(v1) THEN v1 ELSE Uri.Hkps \o v1
      v3 == IF StartsWith(v2, Uri.Hkp)
              THEN Uri.Http \o SubSeq(v2, Len(Uri.Hkp) + 1, Len(v2))
              ELSE v2
      v4 == IF StartsWith(v3, Uri.Hkps)
              THEN Uri.Https \o SubSeq(v3, Len(Uri.Hkps) + 1, Len(v3))
              ELSE v3
  IN  IF v4 # <<>> /\ v4[Len(v4)] = 47 THEN SubSeq(v4, 1, Len(v4) - 1) ELSE v4

\* b.toString(16).toUpperCase().padStart(2, '0'), one digit
HexDigit(n) == IF n < 10 THEN 48 + n ELSE 55 + n

\* a variant that leaves the escape character itself as it is
MustEscape_NoPercent(b) == b < 32 \/ b >= 127

\* the test of assuanEscapeChunk: b < 0x20 || b >= 0x7f || b === 0x0a ||
\* b === 0x0d || b === 0x25
MustEscape(b) == b < 32 \/ b >= 127 \/ b = 10 \/ b = 13 \/ b = 37

\* the text assuanEscapeChunk appends for one byte
escapeByte(b) ==
  IF MustEscape(b) THEN <<37, HexDigit(b \div 16), HexDigit(b % 16)>>
  ELSE <<b>>

\* assuanEscapeChunk(buf): the texts of the bytes, in order (evaluated by
\* halves)
RECURSIVE assuanEscapeChunk(_)
assuanEscapeChunk(buf) ==
  IF buf = <<>> THEN <<>>
  ELSE IF Len(buf) = 1 THEN escapeByte(buf[1])
  ELSE LET h == Len(buf) \div 2
       IN  assuanEscapeChunk(SubSeq(buf, 1, h))
             \o assuanEscapeChunk(SubSeq(buf, h + 1, Len(buf)))

maxBytesPerChunk == 220

\* the line heads createProtocol writes
Lead ==
  \* 'D ' (data line prefix)
  [D |-> <<68, 32>>,
  \* 'END'
   END |-> <<69, 78, 68>>,
  \* 'S ' (status line prefix)
   S |-> <<83, 32>>,
  \* 'OK'
   OK |-> <<79, 75>>,
  \* 'ERR 1'
   ERR1 |-> <<69, 82, 82, 32, 49>>]


\* a variant that writes the whole buffer as one 'D ' line
dataLines_Unsplit(buffer) ==
  IF buffer = <<>> THEN <<>> ELSE <<Lead.D \o assuanEscapeChunk(buffer)>>

\* sendDataBuffer(buffer): one 'D ' line for each chunk of at most
\* maxBytesPerChunk bytes, then 'END'
RECURSIVE dataLines(_)
dataLines(buffer) ==
  IF buffer = <<>> THEN <<>>
  ELSE LET n == IF Len(buffer) < maxBytesPerChunk
                  THEN Len(buffer) ELSE maxBytesPerChunk
       IN  <<Lead.D \o assuanEscapeChunk(SubSeq(buffer, 1, n))>>
             \o dataLines(SubSeq(buffer, n + 1, Len(buffer)))

sendDataBuffer(buffer) == dataLines(buffer) \o <<Lead.END>>

\* sendDataText(text)
sendDataText(text) == sendDataBuffer(textEncoderEncode(text))

\* sendStatus(keyword, value)
sendStatus(keyword, value) ==
  IF value # <<>> THEN <<Lead.S \o keyword \o <<32>> \o value>>
  ELSE <<Lead.S \o keyword>>

\* sendOk(suffix)
sendOk(suffix) ==
  IF suffix # <<>> THEN <<Lead.OK \o <<32>> \o suffix>> ELSE <<Lead.OK>>

\* String(text).replace(/\r?\n/g, ' ')
RECURSIVE newlinesToSpaces(_)
newlinesToSpaces(t) ==
  IF t = <<>> THEN <<>>
  ELSE IF Len(t) = 1 THEN (IF t[1] = 10 THEN <<32>> ELSE t)
  ELSE IF Len(t) = 2 /\ t[1] = 13 /\ t[2] = 10 THEN <<32>>
  ELSE LET h == Len(t) \div 2
           cut == IF t[h] = 13 /\ t[h + 1] = 10 THEN h + 1 ELSE h
       IN  newlinesToSpaces(SubSeq(t, 1, cut))
             \o newlinesToSpaces(SubSeq(t, cut + 1, Len(t)))

\* sendErr(text)
sendErr(text) ==
  LET msg == Trim(newlinesToSpaces(text))
  IN  IF msg # <<>> THEN <<Lead.ERR1 \o <<32>> \o msg>> ELSE <<Lead.ERR1>>

(* ------------------- Assuan engine: processCommand -------------------- *)

\* the keywords of processCommand
Keyword ==
  \* 'BYE'
  [BYE |-> <<66, 89, 69>>,
  \* 'RESET'
   RESET |-> <<82, 69, 83, 69, 84>>,
  \* 'OPTION'
   OPTION |-> <<79, 80, 84, 73, 79, 78>>,
  \* 'GETINFO'
   GETINFO |-> <<71, 69, 84, 73, 78, 70, 79>>,
  \* 'KEYSERVER'
   KEYSERVER |-> <<75, 69, 89, 83, 69, 82, 86, 69, 82>>,
  \* 'KS_SEARCH'
   KS_SEARCH |-> <<75, 83, 95, 83, 69, 65, 82, 67, 72>>,
  \* 'KS_GET'
   KS_GET |-> <<75, 83, 95, 71, 69, 84>>,
  \* 'KS_FETCH'
   KS_FETCH |-> <<75, 83, 95, 70, 69, 84, 67, 72>>,
  \* 'SOURCE'
   SOURCE |-> <<83, 79, 85, 82, 67, 69>>]

\* the argument tokens and data texts of processCommand
Token ==
  \* 'version'
  [version |-> <<118, 101, 114, 115, 105, 111, 110>>,
  \* 'pid'
   pid |-> <<112, 105, 100>>,
  \* '--clear'
   clear |-> <<45, 45, 99, 108, 101, 97, 114>>,
  \* '2.5.17'
   VersionText |-> <<50, 46, 53, 46, 49, 55>>,
  \* '1'
   PidText |-> <<49>>]

\* the texts the engine sends with OK and ERR, and the errors the fetch throws
Message ==
  \* 'Dirmngr fetch shim ready'
  [Greeting |-> <<68, 105, 114, 109, 110, 103, 114, 32, 102, 101, 116, 99,
       104, 32, 115, 104, 105, 109, 32, 114, 101, 97, 100, 121>>,
  \* 'closing connection'
   Closing |-> <<99, 108, 111, 115, 105, 110, 103, 32, 99, 111, 110, 110,
       101, 99, 116, 105, 111, 110>>,
  \* 'Unknown GETINFO key'
   UnknownGetinfo |-> <<85, 110, 107, 110, 111, 119, 110, 32, 71, 69, 84,
       73, 78, 70, 79, 32, 107, 101, 121>>,
  \* 'KS_SEARCH requires a query'
   SearchNeedsQuery |-> <<75, 83, 95, 83, 69, 65, 82, 67, 72, 32, 114, 101,
       113, 117, 105, 114, 101, 115, 32, 97, 32, 113, 117, 101, 114, 121>>,
  \* 'KS_GET requires at least one pattern'
   GetNeedsPattern |-> <<75, 83, 95, 71, 69, 84, 32, 114, 101, 113, 117,
       105, 114, 101, 115, 32, 97, 116, 32, 108, 101, 97, 115, 116, 32,
       111, 110, 101, 32, 112, 97, 116, 116, 101, 114, 110>>,
  \* 'KS_FETCH requires a URL'
   FetchNeedsUrl |-> <<75, 83, 95, 70, 69, 84, 67, 72, 32, 114, 101, 113,
       117, 105, 114, 101, 115, 32, 97, 32, 85, 82, 76>>,
  \* 'Unsupported command: '
   Unsupported |-> <<85, 110, 115, 117, 112, 112, 111, 114, 116, 101, 100,
       32, 99, 111, 109, 109, 97, 110, 100, 58, 32>>,
  \* 'index failed: 404 Not Found'
   IndexFailed |-> <<105, 110, 100, 101, 120, 32, 102, 97, 105, 108, 101,
       100, 58, 32, 52, 48, 52, 32, 78, 111, 116, 32, 70, 111, 117, 110,
       100>>,
  \* 'get failed: 404 Not Found'
   GetFailed |-> <<103, 101, 116, 32, 102, 97, 105, 108, 101, 100, 58, 32,
       52, 48, 52, 32, 78, 111, 116, 32, 70, 111, 117, 110, 100>>,
  \* 'fetch failed: 404 Not Found'
   FetchFailed |-> <<102, 101, 116, 99, 104, 32, 102, 97, 105, 108, 101,
       100, 58, 32, 52, 48, 52, 32, 78, 111, 116, 32, 70, 111, 117, 110,
       100>>]


\* const splitAt = line.indexOf(' ');
\* const command = (splitAt === -1 ? line : line.slice(0, splitAt)).toUpperCase()
commandOf(line) ==
  LET splitAt == IndexOf(line, 32)
  IN  toUpperCase(IF splitAt = 0 THEN line ELSE SubSeq(line, 1, splitAt - 1))

\* const argText = splitAt === -1 ? '' : line.slice(splitAt + 1).trim()
argTextOf(line) ==
  LET splitAt == IndexOf(line, 32)
  IN  IF splitAt = 0 THEN <<>> ELSE Trim(SubSeq(line, splitAt + 1, Len(line)))

\* tokens.splice(clearIdx, 1)
RemoveAt(tokens, k) ==
  SubSeq(tokens, 1, k - 1) \o SubSeq(tokens, k + 1, Len(tokens))

\* for (const token of tokens)
\*   state.keyservers.push(normalizeKeyserver(decodePercentPlus(token)))
RECURSIVE pushKeyservers(_, _)
pushKeyservers(list, tokens) ==
  IF tokens = <<>> THEN list
  ELSE pushKeyservers(
         Append(list, normalizeKeyserver(decodePercentPlus(tokens[1]))),
         Tail(tokens))

\* a variant that leaves an emptied list empty
keyserversOrDefault_KeepEmpty(list) == list

\* if (!state.keyservers.length) state.keyservers.push('https://keys.openpgp.org')
keyserversOrDefault(list) ==
  IF list = <<>> THEN <<DefaultEndpoint>> ELSE list

\* KEYSERVER with arguments: the new state.keyservers
setKeyservers(keyservers, argText) ==
  LET tokens == splitTokens(argText)
      clearIdx == IndexOfToken(tokens, Token.clear)
      rest == IF clearIdx # 0 THEN RemoveAt(tokens, clearIdx) ELSE tokens
      base == IF clearIdx # 0 THEN <<>> ELSE keyservers
  IN  keyserversOrDefault(pushKeyservers(base, rest))

\* the commands processCommand answers without awaiting the fetch
\* collaborator: the lines written, the terminating line's kind, and
\* state.keyservers afterwards.  fetch names the operation still to await;
\* bye is the flag of the returned object ({ resetSession } in part_000,
\* { close } in part_007).
Answer(lines, term, keyservers) ==
  [lines |-> lines, term |-> term, keyservers |-> keyservers,
   fetch |-> "none", bye |-> FALSE]

NeedFetch(lines, op, keyservers) ==
  [lines |-> lines, term |-> "none", keyservers |-> keyservers, fetch |-> op,
   bye |-> FALSE]

processCommand(line, keyservers) ==
  LET command == commandOf(line)
      argText == argTextOf(line)
      values == parseDelimitedArgs(argText).values
  IN  CASE command = Keyword.BYE ->
             [Answer(sendOk(Message.Closing), "OK", keyservers) EXCEPT !.bye = TRUE]
        [] command \in {Keyword.RESET, Keyword.OPTION} ->
             Answer(sendOk(<<>>), "OK", keyservers)
        [] command = Keyword.GETINFO ->
             IF toLowerCase(argText) = Token.version
               THEN Answer(sendDataText(Token.VersionText) \o sendOk(<<>>), "OK",
                           keyservers)
             ELSE IF toLowerCase(argText) = Token.pid
               THEN Answer(sendDataText(Token.PidText) \o sendOk(<<>>), "OK",
                           keyservers)
             ELSE Answer(sendErr(Message.UnknownGetinfo), "ERR", keyservers)
        [] command = Keyword.KEYSERVER ->
             IF argText = <<>>
               THEN Answer(sendStatus(Keyword.KEYSERVER, keyservers[1])
                             \o sendOk(<<>>), "OK", keyservers)
               ELSE Answer(sendOk(<<>>), "OK",
                           setKeyservers(keyservers, argText))
        [] command = Keyword.KS_SEARCH ->
             IF values = <<>>
               THEN Answer(sendErr(Message.SearchNeedsQuery), "ERR", keyservers)
               ELSE NeedFetch(<<>>, "index", keyservers)
        [] command = Keyword.KS_GET ->
             IF values = <<>>
               THEN Answer(sendErr(Message.GetNeedsPattern), "ERR", keyservers)
               ELSE NeedFetch(sendStatus(Keyword.SOURCE, keyservers[1]), "get",
                              keyservers)
        [] command = Keyword.KS_FETCH ->
             IF values = <<>>
               THEN Answer(sendErr(Message.FetchNeedsUrl), "ERR", keyservers)
               ELSE NeedFetch(<<>>, "direct", keyservers)
        [] OTHER ->
             Answer(sendErr(Message.Unsupported \o command), "ERR", keyservers)

(* ---------------------- Assuan engine: runBridge ---------------------- *)
\* if (lineBytes.length > 65536) lineBytes = lineBytes.slice(-4096)
LineLimit == 65536
KeepTail == 4096

\* if (byteValue === 13) continue
NotCR(byteValue) == byteValue # 13

\* the bytes of one line pushed in order, byte 13 skipped:
\*   lineBytes.push(byteValue);
\*   if (lineBytes.length > 65536) lineBytes = lineBytes.slice(-4096)
\* Every push appends and every slice keeps a suffix, so the result is a
\* suffix of all the bytes; its length goes 1, 2, ... LineLimit, then from
\* KeepTail up to LineLimit again, with period LineLimit + 1 - KeepTail.
pushLineBytes(lineBytes, bytes) ==
  LET all == lineBytes \o SelectSeq(bytes, NotCR)
      t == Len(all)
      length == IF t <= LineLimit THEN t
                ELSE KeepTail
                       + ((t - LineLimit - 1) % (LineLimit + 1 - KeepTail))
  IN  SubSeq(all, t - length + 1, t)

\* the read loop of runBridge from the bytes q of the input channel: skip
\* 13, collect up to 10, decode and trim, skip blank lines; stops at the
\* first non-blank line (got) or when q is used up
RECURSIVE readLine(_, _)
readLine(q, lineBytes) ==
  LET p == IndexOf(q, 10)
      buf == pushLineBytes(lineBytes,
                           IF p = 0 THEN q ELSE SubSeq(q, 1, p - 1))
      line == Trim(textDecoderDecode(buf))
      rest == SubSeq(q, p + 1, Len(q))
  IN  IF p = 0
        THEN [inq |-> <<>>, lineBytes |-> buf, line |-> <<>>, got |-> FALSE]
      ELSE IF line = <<>> THEN readLine(rest, <<>>)
      ELSE [inq |-> rest, lineBytes |-> <<>>, line |-> line, got |-> TRUE]

\* the command lines the peer writes
Line ==
  \* 'BYE'
  [Bye |-> <<66, 89, 69>>,
  \* 'RESET'
   Reset |-> <<82, 69, 83, 69, 84>>,
  \* 'GETINFO version'
   GetinfoVersion |-> <<71, 69, 84, 73, 78, 70, 79, 32, 118, 101, 114, 115,
       105, 111, 110>>,
  \* 'GETINFO bogus'
   GetinfoBogus |-> <<71, 69, 84, 73, 78, 70, 79, 32, 98, 111, 103, 117,
       115>>,
  \* 'KEYSERVER'
   Keyserver |-> <<75, 69, 89, 83, 69, 82, 86, 69, 82>>,
  \* 'KEYSERVER --clear'
   KeyserverClear |-> <<75, 69, 89, 83, 69, 82, 86, 69, 82, 32, 45, 45, 99,
       108, 101, 97, 114>>,
  \* 'KEYSERVER --clear hkp://a/'
   KeyserverClearA |-> <<75, 69, 89, 83, 69, 82, 86, 69, 82, 32, 45, 45,
       99, 108, 101, 97, 114, 32, 104, 107, 112, 58, 47, 47, 97, 47>>,
  \* 'KEYSERVER b'
   KeyserverB |-> <<75, 69, 89, 83, 69, 82, 86, 69, 82, 32, 98>>,
  \* 'KS_GET 0x1234ABCD'
   KsGet |-> <<75, 83, 95, 71, 69, 84, 32, 48, 120, 49, 50, 51, 52, 65, 66,
       67, 68>>,
  \* 'KS_GET -- 0x1234ABCD'
   KsGetDash |-> <<75, 83, 95, 71, 69, 84, 32, 45, 45, 32, 48, 120, 49, 50,
       51, 52, 65, 66, 67, 68>>,
  \* 'KS_GET -- a b'
   KsGetTwo |-> <<75, 83, 95, 71, 69, 84, 32, 45, 45, 32, 97, 32, 98>>,
  \* 'KS_SEARCH -- x'
   KsSearch |-> <<75, 83, 95, 83, 69, 65, 82, 67, 72, 32, 45, 45, 32, 120>>,
  \* 'KS_FETCH -- u'
   KsFetch |-> <<75, 83, 95, 70, 69, 84, 67, 72, 32, 45, 45, 32, 117>>,
  \* 'KS_FETCH'
   KsFetchNoArg |-> <<75, 83, 95, 70, 69, 84, 67, 72>>,
  \* 'FROB x'
   Frob |-> <<70, 82, 79, 66, 32, 120>>,
  \* 'frob x'
   frob |-> <<102, 114, 111, 98, 32, 120>>]

CommandLines ==
  {Line.Bye, Line.Reset, Line.GetinfoVersion, Line.GetinfoBogus,
   Line.Keyserver, Line.KeyserverClear, Line.KeyserverClearA, Line.KeyserverB,
   Line.KsGet, Line.KsGetDash, Line.KsGetTwo, Line.KsSearch,
   Line.KsFetch, Line.KsFetchNoArg, Line.Frob, Line.frob}


\* endpoint texts a peer gives to KEYSERVER
Endpoint ==
  \* 'keys.example.org'
  [Bare |-> <<107, 101, 121, 115, 46, 101, 120, 97, 109, 112, 108, 101, 46,
       111, 114, 103>>,
  \* 'hkp://keys.example.org'
   Hkp |-> <<104, 107, 112, 58, 47, 47, 107, 101, 121, 115, 46, 101, 120,
       97, 109, 112, 108, 101, 46, 111, 114, 103>>,
  \* 'hkps://keys.example.org/'
   HkpsSlash |-> <<104, 107, 112, 115, 58, 47, 47, 107, 101, 121, 115, 46,
       101, 120, 97, 109, 112, 108, 101, 46, 111, 114, 103, 47>>,
  \* 'HKPS://keys.example.org'
   HkpsUpper |-> <<72, 75, 80, 83, 58, 47, 47, 107, 101, 121, 115, 46, 101,
       120, 97, 109, 112, 108, 101, 46, 111, 114, 103>>,
  \* 'https://keys.example.org'
   Canonical |-> <<104, 116, 116, 112, 115, 58, 47, 47, 107, 101, 121, 115,
       46, 101, 120, 97, 109, 112, 108, 101, 46, 111, 114, 103>>]

\* the lines `KEYSERVER --clear <endpoint>`, one for each endpoint text
KeyserverLines ==
  {Line.KeyserverClear \o <<32>> \o Endpoint[f] : f \in DOMAIN Endpoint}

\* the lines that make the engine send a data block
DataLines ==
  {Line.KsFetch, Line.KsGetDash, Line.KsSearch, Line.GetinfoVersion}

\* a line of LineLimit + 1 bytes: the letter A up to the last KeepTail bytes,
\* which are `GETINFO`, spaces, and `version`
LongTail ==
  [i \in 1..KeepTail |->
     IF i <= Len(Keyword.GETINFO) THEN Keyword.GETINFO[i]
     ELSE IF i > KeepTail - Len(Token.version)
       THEN Token.version[i - (KeepTail - Len(Token.version))]
     ELSE 32]
LongLine ==
  [i \in 1..(LineLimit + 1) |->
     IF i <= LineLimit + 1 - KeepTail THEN 65
     ELSE LongTail[i - (LineLimit + 1 - KeepTail)]]

\* the lines of a peer that also writes a line longer than the buffer limit
LongLines ==
  {LongLine, Line.GetinfoVersion, Line.GetinfoBogus, Line.Reset, Line.Bye}

\* the lines the peer writes in a behaviour: e.feed names the set
feedLines(e) ==
  CASE e.feed = "keyserver" -> KeyserverLines
    [] e.feed = "data" -> DataLines
    [] e.feed = "long" -> LongLines
    [] OTHER -> CommandLines

\* the payloads the fetch collaborator returns: PayloadLen bytes that do not
\* end in LF, the same ending in LF, a short body with the bytes that
\* assuanEscapeChunk escapes, and an empty body
PayloadBody == [i \in 1..PayloadLen |-> (37 * i + 11) % 256]
PayloadBodyLf == [PayloadBody EXCEPT ![PayloadLen] = 10]
ShortBody == <<0, 10, 13, 37, 127, 65>>
Bodies == {PayloadBody, PayloadBodyLf, ShortBody, <<>>}

\* bytes at the edges of the ranges assuanEscapeChunk tells apart
EscapeBytes == {0, 10, 13, 31, 32, 37, 65, 126, 127, 128, 255}

\* every byte array of at most two of these bytes, and the bytes of '%41'
EscapeBodies ==
  {<<>>, <<37, 52, 49>>} \cup {<<a>> : a \in EscapeBytes}
    \cup {<<a, b>> : a, b \in EscapeBytes}

\* payloads around one and two full chunks of sendDataBuffer
PayloadOf(n) == [i \in 1..n |-> (37 * i + 11) % 256]
ChunkBodies ==
  {PayloadOf(n) : n \in {maxBytesPerChunk - 1, maxBytesPerChunk,
                         maxBytesPerChunk + 1, 2 * maxBytesPerChunk,
                         2 * maxBytesPerChunk + 1}}

\* the payloads are returned to the first command of a behaviour only;
\* later commands get a short or an empty body
fetchBodies(e) ==
  IF e.last.line # <<>> THEN {ShortBody, <<>>}
  ELSE IF e.feed = "data" THEN EscapeBodies \cup ChunkBodies
  ELSE Bodies

\* the error fetchLookup / fetchDirect throw for a response that is not ok
fetchErrorMessage(op) ==
  CASE op = "index" -> Message.IndexFailed
    [] op = "get" -> Message.GetFailed
    [] OTHER -> Message.FetchFailed

\* the engine back at the top of its loop after a command: resp are all the
\* lines written for it
commandDone(e, line, resp, term, keyservers, bodies, failed, before) ==
  [e EXCEPT !.pc = "loop", !.cmd = NoCmd, !.resp = <<>>,
            !.keyservers = keyservers,
            !.byeSeen = @ \/ commandOf(line) = Keyword.BYE,
            !.last = [line |-> line, resp |-> resp, term |-> term,
                      bodies |-> bodies, failed |-> failed,
                      keyserversBefore |-> before,
                      keyserversAfter |-> keyservers,
                      prevTerm |-> e.last.term]]

\* a variant that leaves dirmngrToGpg open at the end of runBridge
runBridgeStop_LeavesOutboundOpen(e) ==
  [e EXCEPT !.pc = "stopped", !.activeSession = FALSE, !.inClosed = TRUE,
            !.results = Append(@, 0)]

\* the end of runBridge: activeSession = null; queueClose(bridge.gpgToDirmngr);
\* queueClose(bridge.dirmngrToGpg); postMessage({ type: 'result', exitCode: 0 })
runBridgeStop(e) ==
  [e EXCEPT !.pc = "stopped", !.activeSession = FALSE, !.inClosed = TRUE,
            !.outClosed = TRUE, !.results = Append(@, 0)]

\* a variant that leaves the command loop after an ERR answer
loopCloses_OnErr(variant, result) ==
  result.term = "ERR" \/ (variant = "part_007" /\ result.bye)

\* part_007: closed = Boolean(result && result.close); while (!closed).
\* part_000 has no such flag: while (true)
loopCloses(variant, result) == variant = "part_007" /\ result.bye

\* part_000: if (result && result.resetSession) sendGreeting()
loopGreetsAgain(variant, result) == variant = "part_000" /\ result.bye

\* a variant that enters the loop without a greeting
runBridgeGreeting_Silent ==
  /\ eng.pc = "start" /\ eng.variant # "none"
  /\ eng' = [eng EXCEPT !.pc = "greeted",
                        !.keyservers = <<normalizeKeyserver(Uri.DefaultKeyserver)>>,
                        !.activeSession = (eng.variant = "part_000")]
  /\ UNCHANGED <<chanVars, devVars, sb>>

\* runBridge up to its loop: state.keyservers, activeSession, sendGreeting()
runBridgeGreeting ==
  /\ eng.pc = "start" /\ eng.variant # "none"
  /\ eng' = [eng EXCEPT !.pc = "greeted",
                        !.keyservers = <<normalizeKeyserver(Uri.DefaultKeyserver)>>,
                        !.activeSession = (eng.variant = "part_000"),
                        !.last = [NoLast EXCEPT !.resp = sendOk(Message.Greeting)]]
  /\ UNCHANGED <<chanVars, devVars, sb>>

\* postMessage({ type: 'ready' })
runBridgePostReady ==
  /\ eng.pc = "greeted"
  /\ eng' = [eng EXCEPT !.pc = "loop", !.readyPosted = TRUE]
  /\ UNCHANGED <<chanVars, devVars, sb>>

\* the peer writes one command line and its terminator into gpgToDirmngr;
\* the channel exists before the engine starts
peerFeed ==
  /\ eng.pc \in {"start", "greeted", "loop", "fetch"}
  /\ eng.inq = <<>> /\ ~eng.inClosed /\ eng.fed < MaxCmds
  /\ \E line \in feedLines(eng), term \in {<<10>>, <<13, 10>>} :
       eng' = [eng EXCEPT !.inq = line \o term, !.fed = @ + 1]
  /\ UNCHANGED <<chanVars, devVars, sb>>

\* the peer closes gpgToDirmngr
peerClose ==
  /\ eng.pc \in {"start", "greeted", "loop", "fetch"} /\ ~eng.inClosed
  /\ eng' = [eng EXCEPT !.inClosed = TRUE, !.peerClosed = TRUE]
  /\ UNCHANGED <<chanVars, devVars, sb>>

\* one pass of the loop: queuePopByte(bridge.gpgToDirmngr, true) until a line
\* is complete, then await processCommand(line, state, proto) up to its
\* first fetch, or to its end
runBridgeReadLine ==
  /\ eng.pc = "loop" /\ eng.inq # <<>>
  /\ LET r == readLine(eng.inq, eng.lineBytes)
         a == processCommand(r.line, eng.keyservers)
         e == [eng EXCEPT !.inq = r.inq, !.lineBytes = r.lineBytes]
         extra == IF loopGreetsAgain(eng.variant, a)
                    THEN sendOk(Message.Greeting) ELSE <<>>
         done == commandDone(e, r.line, a.lines \o extra, a.term,
                             a.keyservers, <<>>, FALSE, eng.keyservers)
     IN  IF ~r.got THEN eng' = e
         ELSE IF a.fetch = "none"
           THEN eng' = IF loopCloses(eng.variant, a)
                         THEN runBridgeStop(done) ELSE done
         ELSE eng' = [e EXCEPT
                !.pc = "fetch", !.resp = a.lines,
                !.cmd = [line |-> r.line, op |-> a.fetch,
                         values |->
                           IF a.fetch = "get"
                             THEN parseDelimitedArgs(argTextOf(r.line)).values
                             ELSE <<joinTokens(
                               parseDelimitedArgs(argTextOf(r.line)).values)>>,
                         blocks |-> <<>>,
                         source |-> IF a.fetch = "direct"
                                      THEN decodePercentPlus(joinTokens(
                                        parseDelimitedArgs(
                                          argTextOf(r.line)).values))
                                      ELSE eng.keyservers[1],
                         bodies |-> <<>>,
                         keyserversBefore |-> eng.keyservers]]
  /\ UNCHANGED <<chanVars, devVars, sb>>

\* queuePopByte returned null: break, and the end of runBridge
runBridgeEnd ==
  /\ eng.pc = "loop" /\ eng.inq = <<>> /\ eng.inClosed
  /\ eng' = runBridgeStop(eng)
  /\ UNCHANGED <<chanVars, devVars, sb>>

\* blocks.push(body); if (body.length && body[body.length - 1] !== 0x0a)
\*   blocks.push(textEncoder.encode('\n'))
pushBlock(blocks, body) ==
  blocks \o body
    \o (IF body # <<>> /\ body[Len(body)] # 10 THEN <<10>> ELSE <<>>)

\* the awaited fetchLookup / fetchDirect returns a body, and processCommand
\* goes on to its next await or to its end
fetchResolve ==
  /\ eng.pc = "fetch"
  /\ \E body \in fetchBodies(eng) :
       LET c == eng.cmd
           bodies == Append(c.bodies, body)
           blocks == pushBlock(c.blocks, body)
           lines ==
             IF c.op = "get"
               THEN eng.resp \o sendDataBuffer(blocks) \o sendOk(<<>>)
               ELSE eng.resp \o sendStatus(Keyword.SOURCE, c.source)
                      \o sendDataBuffer(body) \o sendOk(<<>>)
       IN  IF c.op = "get" /\ Len(c.values) > 1
             THEN eng' = [eng EXCEPT !.cmd.values = Tail(@),
                                     !.cmd.blocks = blocks,
                                     !.cmd.bodies = bodies]
             ELSE eng' = commandDone(eng, c.line, lines, "OK", eng.keyservers,
                                     bodies, FALSE, c.keyserversBefore)
  /\ UNCHANGED <<chanVars, devVars, sb>>

\* the awaited fetch throws: catch (error) { proto.sendErr(error.message) }
fetchReject ==
  /\ eng.pc = "fetch"
  /\ eng' = commandDone(eng, eng.cmd.line,
                        eng.resp \o sendErr(fetchErrorMessage(eng.cmd.op)),
                        "ERR", eng.keyservers, eng.cmd.bodies, TRUE,
                        eng.cmd.keyserversBefore)
  /\ UNCHANGED <<chanVars, devVars, sb>>

\* a variant whose listener also puts state.keyservers back to the default
sessionReset_ResetsKeyservers ==
  /\ eng.variant = "part_000" /\ eng.pc = "fetch" /\ eng.activeSession
  /\ eng.resets < MaxResets
  /\ eng' = [eng EXCEPT !.resets = @ + 1,
                        !.keyservers = <<DefaultEndpoint>>,
                        !.resp = @ \o sendOk(Message.Greeting)]
  /\ UNCHANGED <<chanVars, devVars, sb>>

\* message.type === 'session-reset' (part_000): the listener runs while
\* runBridge is suspended in an await: activeSession.sendGreeting()
sessionReset ==
  /\ eng.variant = "part_000" /\ eng.pc = "fetch" /\ eng.activeSession
  /\ eng.resets < MaxResets
  /\ eng' = [eng EXCEPT !.resets = @ + 1,
                        !.resp = @ \o sendOk(Message.Greeting)]
  /\ UNCHANGED <<chanVars, devVars, sb>>

runBridge ==
  \/ runBridgeGreeting \/ runBridgePostReady \/ runBridgeReadLine
  \/ runBridgeEnd

(* --------------------------- specifications --------------------------- *)
Next ==
  \/ queuePushByteCall \/ queuePushByte
  \/ queuePopByteCall \/ queuePopByte
  \/ queueClose

Spec == Init /\ [][Next]_vars

\* Each worker thread keeps executing its synchronous loop, and
\* Atomics.wait(..., 10) always returns after its 10 ms timeout.
\* the device level: write at one end of a channel, read at the other,
\* and queueClose from any thread
deviceRead ==
  \/ read \/ readLoop \/ readAvailableByte
  \/ readHasData \/ readReturn

DevNext ==
  \/ write \/ writeLoop \/ writeByte \/ queuePushByte
  \/ deviceRead \/ queuePopByteCall \/ queuePopByte
  \/ queueClose

DevSpec == Init /\ [][DevNext]_vars

\* the consumer's poll loop: poll, read and the watcher's timer on the
\* consumer thread, the peer pushing into the inbound channel, and queueClose.
\* The peer writes no more than the ring holds, so its pushes find room, and
\* the consumer pops only through read, which never waits.
PollNext ==
  \/ stdoutPush \/ queuePushByteRoom
  \/ deviceRead \/ queuePopByteNoWait
  \/ poll \/ pollHasData \/ pollReturn
  \/ ensureReadableWatcher
  \/ queueClose

PollSpec == Init /\ [][PollNext]_vars

\* a session bridge from its construction to the parent's result: the parent
\* and the worker's listeners on the parent's thread, the unit's reader
\* popping from the outbound channel on its own thread
BridgeInit ==
  /\ createSharedQueue
  /\ push = PushFrame0
  /\ pop = PopFrame0
  /\ closer = "idle"
  /\ hist = [pushed |-> <<>>, popped |-> <<>>, unreadAtClose |-> 0,
             closeCalls |-> 0]
  /\ wr = WriteFrame0
  /\ rd = ReadFrame0
  /\ pl = PollFrame0
  /\ watch = Watch0
  /\ \E kind \in {"agent", "external", "scdaemon"} : sb = Bridge0(kind)
  /\ eng = NoEngine

BridgeNext ==
  \/ onWorkerReady \/ onWorkerResult \/ onWorkerError
  \/ awaitReady \/ preRun \/ deviceExchange \/ finish
  \/ shutdownAndWait \/ postResult
  \/ queuePushByteRoom \/ queuePushByteLoadClosed
  \/ queuePopByteCall \/ queuePopByte

BridgeSpec == BridgeInit /\ [][BridgeNext]_vars

\* the dirmngr fetch worker from its 'start' message on, its peer writing
\* command lines, the fetch collaborator, and session-reset messages
EngInit ==
  /\ createSharedQueue
  /\ push = PushFrame0
  /\ pop = PopFrame0
  /\ closer = "idle"
  /\ hist = [pushed |-> <<>>, popped |-> <<>>, unreadAtClose |-> 0,
             closeCalls |-> 0]
  /\ wr = WriteFrame0
  /\ rd = ReadFrame0
  /\ pl = PollFrame0
  /\ watch = Watch0
  /\ sb = NoBridge
  /\ \E variant \in {"part_000", "part_007"} : eng = Engine0(variant)

EngNext ==
  \/ runBridge \/ peerFeed \/ peerClose
  \/ fetchResolve \/ fetchReject \/ sessionReset

EngSpec == EngInit /\ [][EngNext]_vars

\* EngSpec with its scheduling: the blocking pop of runBridge returns once
\* gpgToDirmngr is closed and empty, and the function runs on to its end
EngLiveSpec == EngSpec /\ WF_vars(runBridgeEnd)

\* the engine with a peer that sets the endpoint list: every line it writes
\* is a KEYSERVER command that clears the list and names one endpoint
KsInit ==
  /\ createSharedQueue
  /\ push = PushFrame0
  /\ pop = PopFrame0
  /\ closer = "idle"
  /\ hist = [pushed |-> <<>>, popped |-> <<>>, unreadAtClose |-> 0,
             closeCalls |-> 0]
  /\ wr = WriteFrame0
  /\ rd = ReadFrame0
  /\ pl = PollFrame0
  /\ watch = Watch0
  /\ sb = NoBridge
  /\ \E variant \in {"part_000", "part_007"} :
       eng = [Engine0(variant) EXCEPT !.feed = "keyserver"]

KsNext == runBridge \/ peerFeed \/ peerClose

KsSpec == KsInit /\ [][KsNext]_vars

\* the engine with a peer that asks for data and a fetch collaborator that
\* answers every request
DataInit ==
  /\ createSharedQueue
  /\ push = PushFrame0
  /\ pop = PopFrame0
  /\ closer = "idle"
  /\ hist = [pushed |-> <<>>, popped |-> <<>>, unreadAtClose |-> 0,
             closeCalls |-> 0]
  /\ wr = WriteFrame0
  /\ rd = ReadFrame0
  /\ pl = PollFrame0
  /\ watch = Watch0
  /\ sb = NoBridge
  /\ \E variant \in {"part_000", "part_007"} :
       eng = [Engine0(variant) EXCEPT !.feed = "data"]

DataNext == runBridge \/ peerFeed \/ peerClose \/ fetchResolve

DataSpec == DataInit /\ [][DataNext]_vars

\* the engine with a peer that also writes a line longer than the limit of
\* the line buffer
LongInit ==
  /\ createSharedQueue
  /\ push = PushFrame0
  /\ pop = PopFrame0
  /\ closer = "idle"
  /\ hist = [pushed |-> <<>>, popped |-> <<>>, unreadAtClose |-> 0,
             closeCalls |-> 0]
  /\ wr = WriteFrame0
  /\ rd = ReadFrame0
  /\ pl = PollFrame0
  /\ watch = Watch0
  /\ sb = NoBridge
  /\ \E variant \in {"part_000", "part_007"} :
       eng = [Engine0(variant) EXCEPT !.feed = "long"]

LongSpec == LongInit /\ [][KsNext]_vars

(* ------------- persistent agent sessions (gpg-browser-client.mjs, ------- *)
(* ------------- gpg-agent-session-worker.js) ---------------------------- *)
\* The client keeps one agent session worker and starts logical sessions on
\* it.  In SessSpec the variable sb holds the client and the worker:
\*   heap           the SharedArrayBuffer control words allocated so far; the
\*                  index of an entry is the identity of the buffer
\*   sessions       one frame of run() per session started, index = the
\*                  value of _agentSessionNextId it drew
\*   agentSessions  the keys of this._agentSessions
\*   mailbox        run-session messages posted and not yet handled
\*   outbox         messages the worker posted and the client has not handled
\*   boot           runtimeState.bootPromise: "none", "pending" or "done"
\*   awaiting       handleRunSession calls suspended at "await ensureRuntime"
\*   pc             "idle", or "main" while callMain runs in the worker
\*   used           history: <<session, buffer>> for every device callback
\*                  that touched a channel
NoActiveBridge == [gpgToAgent |-> 0, agentToGpg |-> 0]

Sessions0 ==
  [kind |-> "sessions", heap |-> <<>>, sessions |-> <<>>,
   agentSessions |-> {}, mailbox |-> <<>>, outbox |-> <<>>,
   boot |-> "none", awaiting |-> <<>>, pc |-> "idle",
   sessionRunning |-> FALSE, activeSessionId |-> 0,
   activeBridge |-> NoActiveBridge, used |-> {}]

\* new SharedArrayBuffer(..): the identity of the buffer returned
createSharedQueueDescriptor_Reused(heap) ==
  IF Len(heap) < 2 THEN Len(heap) + 1 ELSE Len(heap) - 1

createSharedQueueDescriptor(heap) == Len(heap) + 1

\* the heap once the buffer desc exists: a new buffer is zero-filled
allocated(heap, desc) ==
  IF desc > Len(heap) THEN Append(heap, [closed |-> 0, generation |-> 0])
  ELSE heap

queueCloseDescriptor(heap, desc) ==
  [heap EXCEPT ![desc] = [closed |-> 1, generation |-> @.generation + 1]]

closeBridge(heap, bridge) ==
  queueCloseDescriptor(queueCloseDescriptor(heap, bridge.gpgToAgent),
                       bridge.agentToGpg)

SessFrame == UNCHANGED <<ctrl, data, push, pop, closer, hist, wr, rd, pl, watch, eng>>

\* _startPersistentAgentSession up to its await: two buffers allocated, the
\* session registered, run-session posted
startPersistentAgentSession ==
  /\ sb.kind = "sessions"
  /\ Len(sb.sessions) < MaxSessions
  /\ LET sessionId == Len(sb.sessions) + 1
         g == createSharedQueueDescriptor(sb.heap)
         heap1 == allocated(sb.heap, g)
         a == createSharedQueueDescriptor(heap1)
         heap2 == allocated(heap1, a)
         bridge == [gpgToAgent |-> g, agentToGpg |-> a]
     IN  sb' = [sb EXCEPT
                  !.heap = heap2,
                  !.sessions = Append(@, [bridge |-> bridge, at |-> "posted",
                                          persistentBridgeClosed |-> FALSE]),
                  !.agentSessions = @ \cup {sessionId},
                  !.mailbox = Append(@, [sessionId |-> sessionId,
                                         bridge |-> bridge])]
  /\ SessFrame

\* the 12000 ms timer wins the race: the session is forgotten, both channels
\* are closed and run() throws
readyTimeout ==
  /\ sb.kind = "sessions"
  /\ \E s \in 1..Len(sb.sessions) :
       /\ sb.sessions[s].at = "posted"
       /\ sb' = [sb EXCEPT
                   !.agentSessions = @ \ {s},
                   !.heap = closeBridge(@, sb.sessions[s].bridge),
                   !.sessions[s].at = "failed"]
  /\ SessFrame

\* the client's message listener, with the continuation it resolves:
\* session-ready hands the pair to the gpg worker as sharedAgentBridge,
\* session-result settles the result promise
clientOnMessage ==
  /\ sb.kind = "sessions"
  /\ sb.outbox # <<>>
  /\ LET message == Head(sb.outbox)
         s == message.sessionId
         pending == s \in sb.agentSessions
     IN  sb' = [sb EXCEPT
                  !.outbox = Tail(@),
                  !.agentSessions =
                    IF message.type = "session-result" THEN @ \ {s} ELSE @,
                  !.sessions[s].at =
                    IF message.type = "session-ready" /\ pending /\ @ = "posted"
                    THEN "handed" ELSE @]
  /\ SessFrame

\* closePersistentBridge of a run() that holds a pair
closePersistentBridge ==
  /\ sb.kind = "sessions"
  /\ \E s \in 1..Len(sb.sessions) :
       /\ sb.sessions[s].at = "handed"
       /\ ~sb.sessions[s].persistentBridgeClosed
       /\ sb' = [sb EXCEPT
                   !.sessions[s].persistentBridgeClosed = TRUE,
                   !.heap = closeBridge(@, sb.sessions[s].bridge)]
  /\ SessFrame

\* the worker's message listener takes a run-session message:
\* handleRunSession up to "await ensureRuntime".  A continuation of a settled
\* promise runs before the next message is taken.
handleRunSession ==
  /\ sb.kind = "sessions"
  /\ sb.pc = "idle"
  /\ sb.mailbox # <<>>
  /\ sb.boot = "done" => sb.awaiting = <<>>
  /\ LET message == Head(sb.mailbox)
     IN  IF sb.sessionRunning
         THEN sb' = [sb EXCEPT
                       !.mailbox = Tail(@),
                       !.outbox = Append(@, [type |-> "session-result",
                                             sessionId |-> message.sessionId])]
         ELSE sb' = [sb EXCEPT
                       !.mailbox = Tail(@),
                       !.boot = IF @ = "none" THEN "pending" ELSE @,
                       !.awaiting = Append(@, message)]
  /\ SessFrame

\* runtimeState.bootPromise settles: the runtime is up from now on
ensureRuntime ==
  /\ sb.kind = "sessions"
  /\ sb.boot = "pending"
  /\ sb.pc = "idle"
  /\ sb' = [sb EXCEPT !.boot = "done"]
  /\ SessFrame

\* handleRunSession after the await: the descriptors are wrapped, the session
\* becomes the active one, session-ready is posted and callMain is entered;
\* when preparing the file system throws, finishSession runs instead
handleRunSessionResume ==
  /\ sb.kind = "sessions"
  /\ sb.pc = "idle"
  /\ sb.boot = "done"
  /\ sb.awaiting # <<>>
  /\ LET message == Head(sb.awaiting)
     IN  \E prepared \in BOOLEAN :
           IF prepared
           THEN sb' = [sb EXCEPT
                         !.awaiting = Tail(@),
                         !.sessionRunning = TRUE,
                         !.activeSessionId = message.sessionId,
                         !.activeBridge = message.bridge,
                         !.outbox = Append(@, [type |-> "session-ready",
                                               sessionId |-> message.sessionId]),
                         !.pc = "main"]
           ELSE sb' = [sb EXCEPT
                         !.awaiting = Tail(@),
                         !.outbox = Append(@, [type |-> "session-result",
                                               sessionId |-> message.sessionId]),
                         !.heap = closeBridge(@, message.bridge)]
  /\ SessFrame

\* a device callback inside callMain: stdin pops activeBridge.gpgToAgent,
\* stdout pushes to activeBridge.agentToGpg
deviceCallback ==
  /\ sb.kind = "sessions"
  /\ sb.pc = "main"
  /\ sb.activeBridge # NoActiveBridge
  /\ \E desc \in {sb.activeBridge.gpgToAgent, sb.activeBridge.agentToGpg} :
       sb' = [sb EXCEPT !.used = @ \cup {<<sb.activeSessionId, desc>>}]
  /\ SessFrame

\* callMain returns or throws: finishSession posts the result, closes the
\* active pair and leaves the worker free for the next session
finishSession ==
  /\ sb.kind = "sessions"
  /\ sb.pc = "main"
  /\ sb' = [sb EXCEPT
              !.outbox = Append(@, [type |-> "session-result",
                                    sessionId |-> sb.activeSessionId]),
              !.heap = IF sb.activeBridge # NoActiveBridge
                       THEN closeBridge(@, sb.activeBridge) ELSE @,
              !.activeBridge = NoActiveBridge,
              !.activeSessionId = 0,
              !.sessionRunning = FALSE,
              !.pc = "idle"]
  /\ SessFrame

SessInit ==
  /\ createSharedQueue
  /\ push = PushFrame0
  /\ pop = PopFrame0
  /\ closer = "idle"
  /\ hist = [pushed |-> <<>>, popped |-> <<>>, unreadAtClose |-> 0,
             closeCalls |-> 0]
  /\ wr = WriteFrame0
  /\ rd = ReadFrame0
  /\ pl = PollFrame0
  /\ watch = Watch0
  /\ sb = Sessions0
  /\ eng = NoEngine

SessNext ==
  \/ startPersistentAgentSession
  \/ readyTimeout
  \/ clientOnMessage
  \/ closePersistentBridge
  \/ handleRunSession
  \/ ensureRuntime
  \/ handleRunSessionResume
  \/ deviceCallback
  \/ finishSession

SessSpec == SessInit /\ [][SessNext]_vars

\* a channel that has carried LongRun bytes, all of them read, and was never
\* closed: head = tail = LongRun mod size, generation = 2 * LongRun.  The
\* histories start at this point.
LongRun == (Int32Max - 1) \div 2

GenInit ==
  /\ ctrl = [i \in 0..3 |-> IF i \in {0, 1} THEN LongRun % QSize
                            ELSE IF i = 3 THEN 2 * LongRun ELSE 0]
  /\ data = [i \in 0..(QSize - 1) |-> 0]
  /\ push = PushFrame0
  /\ pop = PopFrame0
  /\ closer = "idle"
  /\ hist = [pushed |-> <<>>, popped |-> <<>>, unreadAtClose |-> 0,
             closeCalls |-> 0]
  /\ wr = WriteFrame0
  /\ rd = ReadFrame0
  /\ pl = PollFrame0
  /\ watch = Watch0
  /\ sb = NoBridge
  /\ eng = NoEngine

GenSpec == GenInit /\ [][Next]_vars

\* the channel with a diagnostic snapshot taken at one of its ends
SnapInit ==
  /\ createSharedQueue
  /\ push = PushFrame0
  /\ pop = PopFrame0
  /\ closer = "idle"
  /\ hist = [pushed |-> <<>>, popped |-> <<>>, unreadAtClose |-> 0,
             closeCalls |-> 0]
  /\ wr = WriteFrame0
  /\ rd = ReadFrame0
  /\ pl = PollFrame0
  /\ watch = Watch0
  /\ sb = Snapshot0
  /\ eng = NoEngine

SnapNext == Next \/ summarizeQueueCall \/ summarizeQueueLoad

SnapSpec == SnapInit /\ [][SnapNext]_vars

(* ------------------- gpg worker: handleRun and finish ----------------- *)
\* endpoint tokens a peer can give to KEYSERVER: a scheme or none, a host or
\* none, and up to two trailing slashes; a token is never empty
EndpointTexts ==
  {prefix \o host \o slashes :
     prefix \in {<<>>, Uri.Hkp, Uri.Hkps, toUpperCase(Uri.Hkps), Uri.Http,
                 Uri.Https},
     host \in {<<>>, <<97>>, Endpoint.Bare},
     slashes \in {<<>>, <<47>>, <<47, 47>>}} \ {<<>>}

\* one endpoint from the KEYSERVER command to the lookup: input is the token,
\* stored the entry of state.keyservers (what SOURCE reports), root the value
\* makeLookupUrl builds the URL from
Lookup0 ==
  [kind |-> "lookup", pc |-> "token", input |-> <<>>, stored |-> <<>>,
   root |-> <<>>]

\* processCommand, KEYSERVER:
\*   state.keyservers.push(normalizeKeyserver(decodePercentPlus(token)))
pushKeyserver ==
  /\ sb.kind = "lookup" /\ sb.pc = "token"
  /\ sb' = [sb EXCEPT !.pc = "stored",
                      !.stored = normalizeKeyserver(decodePercentPlus(sb.input))]
  /\ UNCHANGED <<chanVars, devVars, eng>>

\* makeLookupUrl(base, op, search): const root = normalizeKeyserver(base),
\* with base = state.keyservers[0]
makeLookupUrl ==
  /\ sb.kind = "lookup" /\ sb.pc = "stored"
  /\ sb' = [sb EXCEPT !.pc = "lookup", !.root = normalizeKeyserver(sb.stored)]
  /\ UNCHANGED <<chanVars, devVars, eng>>

LookupInit ==
  /\ createSharedQueue
  /\ push = PushFrame0
  /\ pop = PopFrame0
  /\ closer = "idle"
  /\ hist = [pushed |-> <<>>, popped |-> <<>>, unreadAtClose |-> 0,
             closeCalls |-> 0]
  /\ wr = WriteFrame0
  /\ rd = ReadFrame0
  /\ pl = PollFrame0
  /\ watch = Watch0
  /\ \E input \in EndpointTexts : sb = [Lookup0 EXCEPT !.input = input]
  /\ eng = NoEngine

LookupNext == pushKeyserver \/ makeLookupUrl

LookupSpec == LookupInit /\ [][LookupNext]_vars

\* the `run` messages one gpg worker is sent
MaxRuns == 2

\* the closure of one handleRun call (gpg-browser-worker.js): pc is where the
\* async function stands ("import": await importLauncherScript, "completion":
\* await runCompletion, "returned"), runTimeoutId whether the run timer is
\* armed, post how far postResult is ("shutdown": awaiting
\* agentBridge.shutdownAndWait(2500)), posted the exit codes of the result
\* messages posted for this run, ignored whether a call of finish returned
\* at `if (didFinish) return`
Run0 ==
  [pc |-> "import", agentBridge |-> FALSE, didFinish |-> FALSE,
   runTimeoutId |-> FALSE, exitCode |-> 0, post |-> "none", posted |-> <<>>,
   runCompletion |-> FALSE, listeners |-> TRUE, ignored |-> FALSE]

\* the worker before its first message: runInProgress, the handleRun closures
\* in the order the runs were accepted, the messages refused, whether
\* setTimeout(() => self.close(), 0) is pending, whether the worker closed
Worker0 ==
  [kind |-> "run", runInProgress |-> FALSE, runs |-> <<>>, refused |-> 0,
   closing |-> FALSE, closed |-> FALSE]

\* finish(exitCode): if (didFinish) return; clearRunTimeout(); didFinish =
\* true; void postResult().  postResult runs on at once to its postMessage
\* when there is no agentBridge, else it stops at
\* await agentBridge.shutdownAndWait(2500)
finishRun(r, exitCode) ==
  IF r.didFinish THEN [r EXCEPT !.ignored = TRUE]
  ELSE LET f == [r EXCEPT !.runTimeoutId = FALSE, !.didFinish = TRUE,
                          !.exitCode = exitCode]
       IN  IF f.agentBridge
             THEN [f EXCEPT !.post = "shutdown"]
             ELSE [f EXCEPT !.post = "posted",
                            !.posted = Append(@, resultExitCode(exitCode)),
                            !.runCompletion = TRUE]

\* the worker after a call of finish for run i: postResult that ran to its
\* end has queued setTimeout(() => self.close(), 0)
afterFinish(w, i, r) ==
  [w EXCEPT !.runs[i] = r,
            !.closing = @ \/ Len(r.posted) > Len(w.runs[i].posted)]

RunFrame == UNCHANGED <<chanVars, devVars, eng>>

WorkerOpen == sb.kind = "run" /\ ~sb.closed

\* the message listener takes a `run` message: handleRun returns at
\* `if (runInProgress)`, or returns early with a result of its own and
\* self.close() (missing gpgScriptUrl), or sets everything up, arms the run
\* timer when runTimeoutMs > 0 and awaits importLauncherScript
handleRun ==
  /\ WorkerOpen
  /\ Len(sb.runs) + sb.refused < MaxRuns
  /\ IF sb.runInProgress
       THEN sb' = [sb EXCEPT !.refused = @ + 1]
       ELSE \E hasScriptUrl, agentBridge, armed \in BOOLEAN :
              IF ~hasScriptUrl
                THEN sb' = [sb EXCEPT
                       !.runs = Append(@, [Run0 EXCEPT !.pc = "returned",
                                                       !.listeners = FALSE,
                                                       !.post = "posted",
                                                       !.posted = <<2>>]),
                       !.closed = TRUE]
                ELSE sb' = [sb EXCEPT
                       !.runInProgress = TRUE,
                       !.runs = Append(@, [Run0 EXCEPT
                                             !.agentBridge = agentBridge,
                                             !.runTimeoutId = armed])]
  /\ RunFrame

\* the run timer fires: cleanupSecrets(); finish(124)
runTimeout ==
  /\ WorkerOpen
  /\ \E i \in 1..Len(sb.runs) :
       /\ sb.runs[i].runTimeoutId
       /\ sb' = afterFinish(sb, i, finishRun(sb.runs[i], 124))
  /\ RunFrame

\* await importLauncherScript(gpgScriptUrl) returns
importLauncherScript ==
  /\ WorkerOpen
  /\ \E i \in 1..Len(sb.runs) :
       /\ sb.runs[i].pc = "import"
       /\ sb' = [sb EXCEPT !.runs[i].pc = "completion"]
  /\ RunFrame

\* the launcher throws: catch (error) { if (!didFinish && ..error.status)
\* finish(Number(error.status)); else if (!didFinish) finish(1) }
importLauncherScriptError ==
  /\ WorkerOpen
  /\ \E i \in 1..Len(sb.runs), status \in {1, 2} :
       /\ sb.runs[i].pc = "import"
       /\ LET r == [sb.runs[i] EXCEPT !.pc = "finally"]
          IN  sb' = IF r.didFinish THEN [sb EXCEPT !.runs[i] = r]
                    ELSE afterFinish(sb, i, finishRun(r, status))
  /\ RunFrame

\* Module.onRuntimeInitialized: if (didFinish) return; callMain returns rc or
\* throws, finish(..) in both branches
onRuntimeInitialized ==
  /\ WorkerOpen
  /\ \E i \in 1..Len(sb.runs), rc \in ExitCodes :
       /\ sb.runs[i].pc = "completion" /\ ~sb.runs[i].didFinish
       /\ sb' = afterFinish(sb, i,
                  finishRun(sb.runs[i], IF IsFinite(rc) THEN rc ELSE 0))
  /\ RunFrame

\* Module.onExit: cleanupSecrets(); finish(code)
onExit ==
  /\ WorkerOpen
  /\ \E i \in 1..Len(sb.runs), code \in ExitCodes :
       /\ sb.runs[i].pc = "completion"
       /\ sb' = afterFinish(sb, i, finishRun(sb.runs[i], code))
  /\ RunFrame

\* Module.onAbort, handleGlobalError, handleUnhandledRejection:
\* if (!didFinish) finish(1)
onAbort ==
  /\ WorkerOpen
  /\ \E i \in 1..Len(sb.runs) :
       /\ sb.runs[i].pc \in {"import", "completion"}
       /\ sb.runs[i].listeners /\ ~sb.runs[i].didFinish
       /\ sb' = afterFinish(sb, i, finishRun(sb.runs[i], 1))
  /\ RunFrame

\* postResult after await agentBridge.shutdownAndWait(2500): postMessage({
\* type: 'result', exitCode: .. }); setTimeout(() => self.close(), 0);
\* resolveRunCompletion()
postResultResume ==
  /\ WorkerOpen
  /\ \E i \in 1..Len(sb.runs) :
       /\ sb.runs[i].post = "shutdown"
       /\ sb' = [sb EXCEPT
                   !.runs[i].post = "posted",
                   !.runs[i].posted =
                      Append(@, resultExitCode(sb.runs[i].exitCode)),
                   !.runs[i].runCompletion = TRUE,
                   !.closing = TRUE]
  /\ RunFrame

\* handleRun after await runCompletion, or after its catch block: finally {
\* clearRunTimeout(); .. removeEventListener(..); runInProgress = false }
handleRunFinally ==
  /\ WorkerOpen
  /\ \E i \in 1..Len(sb.runs) :
       /\ \/ sb.runs[i].pc = "finally"
          \/ sb.runs[i].pc = "completion" /\ sb.runs[i].runCompletion
       /\ sb' = [sb EXCEPT !.runs[i].pc = "returned",
                           !.runs[i].runTimeoutId = FALSE,
                           !.runs[i].listeners = FALSE,
                           !.runInProgress = FALSE]
  /\ RunFrame

\* the task queued by setTimeout(() => { self.close(); }, 0) runs
selfClose ==
  /\ WorkerOpen /\ sb.closing
  /\ sb' = [sb EXCEPT !.closed = TRUE]
  /\ RunFrame

RunInit ==
  /\ createSharedQueue
  /\ push = PushFrame0
  /\ pop = PopFrame0
  /\ closer = "idle"
  /\ hist = [pushed |-> <<>>, popped |-> <<>>, unreadAtClose |-> 0,
             closeCalls |-> 0]
  /\ wr = WriteFrame0
  /\ rd = ReadFrame0
  /\ pl = PollFrame0
  /\ watch = Watch0
  /\ sb = Worker0
  /\ eng = NoEngine

RunNext ==
  \/ handleRun \/ runTimeout \/ importLauncherScript
  \/ importLauncherScriptError \/ onRuntimeInitialized \/ onExit \/ onAbort
  \/ postResultResume \/ handleRunFinally \/ selfClose

RunSpec == RunInit /\ [][RunNext]_vars

(* ------------------- WasmGpgBrowserClient: run ------------------------ *)
\* the calls of run() made on one client
MaxCalls == 2

\* one call of run() (gpg-browser-client.mjs): pc is where the async function
\* stands ("agent": await this._startPersistentAgentSession, "promise":
\* await new Promise, "returned"), outcome how its promise settled, worker
\* the gpg Worker it spawned ("scheduled": setTimeout(() =>
\* worker.terminate(), 80) is pending), settled and watchdogId the variables
\* of the promise's executor, session whether persistentAgentSession is set,
\* finalizing whether finalizeResult has started
Call0 ==
  [pc |-> "returned", outcome |-> "none", worker |-> "none",
   settled |-> FALSE, watchdogId |-> FALSE, session |-> FALSE,
   finalizing |-> FALSE, persistentBridgeClosed |-> FALSE]

\* the client after its constructor: this._runInProgress = false
Client0 == [kind |-> "client", runInProgress |-> FALSE, calls |-> <<>>]

ClientFrame == UNCHANGED <<chanVars, devVars, eng>>

\* finishResolve(value): if (settled) return; settled = true;
\* clearWatchdog(); setTimeout(() => { worker.terminate(); }, 80); resolve
finishResolve(c) ==
  IF c.settled THEN c
  ELSE [c EXCEPT !.settled = TRUE, !.watchdogId = FALSE,
                 !.worker = "scheduled", !.outcome = "resolved",
                 !.pc = "returned"]

\* finishReject(error): if (settled) return; settled = true; clearWatchdog();
\* closePersistentBridge(); worker.terminate(); reject(error)
finishReject(c) ==
  IF c.settled THEN c
  ELSE [c EXCEPT !.settled = TRUE, !.watchdogId = FALSE,
                 !.persistentBridgeClosed = c.session,
                 !.worker = "terminated", !.outcome = "rejected",
                 !.pc = "returned"]

\* call i has become c; when that settled run()'s promise, the finally block
\* of run() follows: this._runInProgress = false
afterSettle(w, i, c) ==
  [w EXCEPT !.calls[i] = c,
            !.runInProgress =
               IF c.pc = "returned" /\ w.calls[i].pc # "returned"
                 THEN FALSE ELSE @]

\* a variant in which the test of the flag stands inside the try block, so
\* that the finally block runs for the refused call too
runRefused_InsideTry(w) ==
  [w EXCEPT !.calls = Append(@, [Call0 EXCEPT !.outcome = "refused"]),
            !.runInProgress = FALSE]

\* if (this._runInProgress) throw new Error('.. only supports one active run
\* at a time'): the statement stands before the try block
runRefused(w) ==
  [w EXCEPT !.calls = Append(@, [Call0 EXCEPT !.outcome = "refused"])]

\* run(args, callbacks) up to its first await: the two throw statements, then
\* this._runInProgress = true, new Worker(this.workerUrl), and either
\* await this._startPersistentAgentSession(..) or the promise, whose
\* executor arms the watchdog when runTimeoutMs > 0 and posts the run
\* message (catch: finishReject)
run ==
  /\ sb.kind = "client"
  /\ Len(sb.calls) < MaxCalls
  /\ \E hasScriptUrl, enableAgentBridge, armed, posts \in BOOLEAN :
       IF ~hasScriptUrl
         THEN sb' = [sb EXCEPT
                !.calls = Append(@, [Call0 EXCEPT !.outcome = "rejected"])]
       ELSE IF sb.runInProgress
         THEN sb' = runRefused(sb)
       ELSE IF enableAgentBridge
         THEN sb' = [sb EXCEPT
                !.runInProgress = TRUE,
                !.calls = Append(@, [Call0 EXCEPT !.pc = "agent",
                                                  !.worker = "running"])]
       ELSE LET c == [Call0 EXCEPT !.pc = "promise", !.worker = "running",
                                   !.watchdogId = armed]
                w == [sb EXCEPT !.runInProgress = TRUE,
                                !.calls = Append(@, c)]
            IN  sb' = IF posts THEN w
                      ELSE afterSettle(w, Len(w.calls), finishReject(c))
  /\ ClientFrame

\* _startPersistentAgentSession returned the session: the promise is
\* created, the watchdog armed and the run message posted
runSessionStarted ==
  /\ sb.kind = "client"
  /\ \E i \in 1..Len(sb.calls), armed \in BOOLEAN :
       /\ sb.calls[i].pc = "agent"
       /\ sb' = [sb EXCEPT !.calls[i].pc = "promise",
                           !.calls[i].session = TRUE,
                           !.calls[i].watchdogId = armed]
  /\ ClientFrame

\* _startPersistentAgentSession threw ('agent session worker did not become
\* ready in time', or the worker could not be started): run() leaves its try
\* block through finally { this._runInProgress = false }
runSessionFailed ==
  /\ sb.kind = "client"
  /\ \E i \in 1..Len(sb.calls) :
       /\ sb.calls[i].pc = "agent"
       /\ sb' = afterSettle(sb, i, [sb.calls[i] EXCEPT !.pc = "returned",
                                                       !.outcome = "rejected"])
  /\ ClientFrame

\* the worker's message of type 'result': void finalizeResult(), which awaits
\* the agent session's result for up to 6000 ms
workerResult ==
  /\ sb.kind = "client"
  /\ \E i \in 1..Len(sb.calls) :
       /\ sb.calls[i].pc = "promise" /\ sb.calls[i].worker = "running"
       /\ ~sb.calls[i].finalizing
       /\ sb' = [sb EXCEPT !.calls[i].finalizing = TRUE]
  /\ ClientFrame

\* the end of finalizeResult: closePersistentBridge(); finishResolve({..})
finalizeResult ==
  /\ sb.kind = "client"
  /\ \E i \in 1..Len(sb.calls) :
       /\ sb.calls[i].finalizing /\ ~sb.calls[i].persistentBridgeClosed
       /\ sb' = afterSettle(sb, i,
                  finishResolve([sb.calls[i] EXCEPT
                                   !.persistentBridgeClosed = TRUE]))
  /\ ClientFrame

\* worker.addEventListener('error', ..): finishReject(new Error(message))
workerError ==
  /\ sb.kind = "client"
  /\ \E i \in 1..Len(sb.calls) :
       /\ sb.calls[i].pc = "promise" /\ sb.calls[i].worker = "running"
       /\ sb' = afterSettle(sb, i, finishReject(sb.calls[i]))
  /\ ClientFrame

\* the watchdog timer fires: finishReject(new Error('browser client watchdog
\* timeout ..'))
watchdog ==
  /\ sb.kind = "client"
  /\ \E i \in 1..Len(sb.calls) :
       /\ sb.calls[i].watchdogId
       /\ sb' = afterSettle(sb, i, finishReject(sb.calls[i]))
  /\ ClientFrame

\* the timer of finishResolve fires: worker.terminate()
workerTerminate ==
  /\ sb.kind = "client"
  /\ \E i \in 1..Len(sb.calls) :
       /\ sb.calls[i].worker = "scheduled"
       /\ sb' = [sb EXCEPT !.calls[i].worker = "terminated"]
  /\ ClientFrame

ClientInit ==
  /\ createSharedQueue
  /\ push = PushFrame0
  /\ pop = PopFrame0
  /\ closer = "idle"
  /\ hist = [pushed |-> <<>>, popped |-> <<>>, unreadAtClose |-> 0,
             closeCalls |-> 0]
  /\ wr = WriteFrame0
  /\ rd = ReadFrame0
  /\ pl = PollFrame0
  /\ watch = Watch0
  /\ sb = Client0
  /\ eng = NoEngine

ClientNext ==
  \/ run \/ runSessionStarted \/ runSessionFailed \/ workerResult
  \/ finalizeResult \/ workerError \/ watchdog \/ workerTerminate

ClientSpec == ClientInit /\ [][ClientNext]_vars

\* PollSpec with its scheduling: every call that has started runs to its
\* return (the threads execute synchronous code), and the interval timer
\* gets its turn whenever the consumer thread is free again and again
PollLiveSpec ==
  /\ PollSpec
  /\ WF_vars(queuePushByteRoom) /\ WF_vars(queuePopByteNoWait)
  /\ WF_vars(readLoop \/ readAvailableByte \/ readHasData \/ readReturn)
  /\ WF_vars(pollHasData \/ pollReturn)
  /\ WF_vars(queueCloseNotify)
  /\ SF_vars(watcherHasData) /\ WF_vars(watcherSample)

LiveSpec ==
  Spec /\ WF_vars(queuePushByte) /\ WF_vars(queuePopByte) /\ WF_vars(queueCloseNotify)

(* ------------------------------ properties ---------------------------- *)
\* C1: the bytes returned by successful pops are at every moment a prefix
\* of the bytes accepted by successful pushes, and once the consumer has
\* emptied the channel it has returned exactly the accepted sequence.
C1_FifoPrefix ==
  /\ IsPrefix(hist.popped, hist.pushed)
  /\ (qHead = qTail /\ pop.pc # "notify") => hist.popped = hist.pushed

\* more bytes than the capacity went through and were popped until empty
C1_Witness ==
  /\ Len(hist.pushed) > QSize
  /\ hist.popped = hist.pushed
  /\ pop.ret = RetUndefined

\* C2: pop never returns end-of-stream (null) while a byte that was
\* pushed before the close is still unread.
C2_DrainBeforeEos ==
  pop.ret = RetNull => hist.unreadAtClose = 0

\* C3: a push issued after close() has been called returns failure and
\* stores no byte in the ring.
C3_PushFailsAfterClose ==
  push.closedAtCall => (push.ret # "true" /\ ~push.stored)

\* C4: with the consumer idle and the channel open, a non-blocking push
\* succeeds (and stores its byte) exactly when fewer than QSize-1 bytes are
\* in the channel, and otherwise reports would-block and stores nothing:
\* QSize-1 pushes fill an empty channel, and one pop admits exactly one more.
C4_FullAtCapacityMinusOne ==
  (push.ret # "none" /\ ~push.shouldBlock /\ push.quiet /\ qClosed = 0) =>
    LET used == Len(hist.pushed) - Len(hist.popped)
        usedAtCall == used - (IF push.stored THEN 1 ELSE 0)
    IN /\ (push.ret = "true") <=> (usedAtCall < QSize - 1)
       /\ (push.ret = "true") <=> push.stored

\* after QSize-1 pushes and one pop, one more push was accepted and the
\* next one reported would-block
C4_Witness ==
  /\ push.ret = "false" /\ ~push.shouldBlock /\ push.quiet /\ qClosed = 0
  /\ Len(hist.popped) = 1
  /\ Len(hist.pushed) = QSize

\* C5: a reader blocked in a blocking pop does not stay blocked once the
\* channel is closed: it returns end-of-stream (or a byte that arrived
\* meanwhile), after at most one Atomics.wait that ended under the closed flag.
C5_CloseUnblocksReader ==
  /\ [](pop.waitsClosed <= 1)
  /\ (pop.pc \in {"ld_stamp", "wait"} /\ qClosed # 0)
        ~> (pop.pc = "idle" /\ pop.ret.kind \in {"null", "byte"})

\* a reader that was waiting when the channel was closed returned null
C5_Witness ==
  pop.ret = RetNull /\ pop.shouldBlock /\ pop.waitsClosed = 1

\* C6: a writer blocked in a blocking push on a full channel does not stay
\* blocked once the channel is closed: it returns failure unless the
\* consumer popped meanwhile, after at most one Atomics.wait that ended
\* under the closed flag.
C6_CloseUnblocksWriter ==
  /\ [](push.waitsClosed <= 1)
  /\ (push.pc \in {"ld_stamp", "wait"} /\ qClosed # 0)
        ~> (push.pc = "idle" /\ (push.ret = "false" \/ ~push.quiet))

\* a writer that was waiting when the channel was closed returned failure
\* with no pop in between
C6_Witness ==
  push.ret = "false" /\ push.shouldBlock /\ push.quiet /\ push.waitsClosed = 1
\* C7: a write in which some push was refused raises an error to the guest;
\* in particular it does not return length as if every byte were stored.
C7_WriteFailureRaises ==
  (wr.pc = "idle" /\ wr.failed) => wr.ret.kind = "errno"

\* C8: read never enters a wait; a positive result is the number of bytes
\* copied, at most length, and they are the last bytes popped, in order; with
\* nothing copied it throws EAGAIN when isReadableClosed() said open and
\* returns 0 when the channel is closed.
C8_ReadNeverWaits ==
  /\ rd.pc # "idle" => pop.pc \notin {"ld_stamp", "wait"}
  /\ (rd.ret.kind = "count" /\ rd.ret.n > 0) =>
        /\ rd.ret.n = Len(rd.buf) /\ rd.ret.n <= rd.length
        /\ Len(hist.popped) >= rd.ret.n
        /\ rd.buf = SubSeq(hist.popped, Len(hist.popped) - rd.ret.n + 1,
                           Len(hist.popped))
  /\ rd.ret.kind = "errno" =>
        rd.ret.n = EAGAIN /\ rd.buf = <<>> /\ ~rd.sawClosed
  /\ rd.ret = DevCount(0) => rd.buf = <<>> /\ qClosed # 0

\* a read of a positive length found the open channel empty and threw EAGAIN
C8_Witness ==
  rd.ret = DevErrno(EAGAIN) /\ rd.length > 0

\* C9: the mask poll returns always has POLLOUT, has POLLIN when the inbound
\* channel held data at the call, and has POLLHUP when it was closed at the
\* call; so the input side is reported ready (POLLIN for data, POLLHUP for
\* end-of-file) whenever data are pending or the channel is closed.
C9_PollMask ==
  pl.returned =>
    /\ HasBit(pl.mask, POLLOUT)
    /\ pl.dataAtCall => HasBit(pl.mask, POLLIN)
    /\ pl.closedAtCall => HasBit(pl.mask, POLLHUP)
    /\ (pl.dataAtCall \/ pl.closedAtCall) => pl.mask # POLLOUT

\* poll on a closed, drained channel reported the hang-up
C9_Witness ==
  pl.returned /\ pl.closedAtCall /\ ~pl.dataAtCall /\ pl.mask = POLLOUT + POLLHUP

\* C10: no callback is called twice; a callback still registered has not
\* been called; a sample that saw a transition into has-data or into closed
\* called every callback registered at that moment, and a sample without
\* such a transition called none.
C10_WatcherEdgeOneShot ==
  /\ \A i \in 1..MaxReg : watch.invoked[i] <= 1
  /\ \A i \in Registered(watch) : watch.invoked[i] = 0
  /\ watch.lastTick.edge => watch.lastTick.fired = watch.lastTick.before
  /\ ~watch.lastTick.edge => watch.lastTick.fired = {}

\* one sample saw a transition and called two registered callbacks
C10_Witness ==
  /\ watch.lastTick.edge
  /\ Cardinality(watch.lastTick.fired) = 2
  /\ watch.readableHandlers = <<>>
  /\ \A i \in watch.lastTick.fired : watch.invoked[i] = 1


(* ---------------------- properties: session bridge -------------------- *)
\* C11: when the readiness deadline passed without a ready signal, awaitReady
\* reported false, and the parent neither installs the device over the
\* bridge nor exchanges bytes with the unit through it.
C11_ReadinessTimeoutFailsStart ==
  sb.readyTimedOut =>
    (sb.ready = "false" /\ ~sb.deviceInstalled /\ ~sb.exchanged)

\* C12: once shutdownAndWait has returned, the outbound and the inbound
\* channel are both closed, and after an expired deadline the unit has been
\* force-stopped.
C12_ShutdownClosesBothChannels ==
  sb.shutReturned =>
    (qClosed # 0 /\ sb.inClosed /\ (sb.timedOut => sb.terminated))

\* C13: when the unit had not finished, the outbound channel is closed only
\* after the whole sequence B, Y, E, LF was written into it, and a reader
\* that meets end-of-stream has received that sequence as its last bytes.
C13_TerminationSequenceBeforeClose ==
  (sb.sentBye /\ qClosed # 0) =>
    /\ Len(hist.pushed) >= Len(TermSeq)
    /\ SubSeq(hist.pushed, Len(hist.pushed) - Len(TermSeq) + 1,
              Len(hist.pushed)) = TermSeq
    /\ (pop.ret = RetNull => hist.popped = hist.pushed)

\* C14: when the shutdown deadline expired, the parent still posts exactly
\* one result, carrying the exit code its own program ended with, and the
\* browser worker only flags the timeout in that result.
C14_ShutdownTimeoutKeepsExitCode ==
  sb.timedOut =>
    /\ sb.posted \in {<<>>, <<IF sb.exitCode = NaN THEN 1 ELSE sb.exitCode>>}
    /\ (sb.pc = "done" =>
          (sb.posted # <<>> /\ (sb.kind = "agent" => sb.timeoutFlag)))

C14_Witness ==
  /\ sb.kind = "agent" /\ sb.pc = "done" /\ sb.timedOut
  /\ sb.exitCode = 2 /\ sb.posted = <<2>>


(* ---------------------- properties: Assuan engine --------------------- *)

\* 'ERR 1 Unsupported command: FROB'
E_UnsupportedFrob ==
  <<69, 82, 82, 32, 49, 32, 85, 110, 115, 117, 112, 112, 111, 114, 116,
    101, 100, 32, 99, 111, 109, 109, 97, 110, 100, 58, 32, 70, 82, 79, 66>>

\* 'http://a'
E_HttpA == <<104, 116, 116, 112, 58, 47, 47, 97>>

\* 'https://b'
E_HttpsB == <<104, 116, 116, 112, 115, 58, 47, 47, 98>>

\* 'D 2.5.17'
E_DataVersion == <<68, 32, 50, 46, 53, 46, 49, 55>>

\* 'S KEYSERVER '
E_StatusKeyserver == <<83, 32, 75, 69, 89, 83, 69, 82, 86, 69, 82, 32>>

\* 'OK closing connection'
E_OkClosing ==
  <<79, 75, 32, 99, 108, 111, 115, 105, 110, 103, 32, 99, 111, 110, 110,
    101, 99, 116, 105, 111, 110>>

\* 'S SOURCE '
E_StatusSource == <<83, 32, 83, 79, 85, 82, 67, 69, 32>>

\* 'ERR 1 '
E_Err1 == <<69, 82, 82, 32, 49, 32>>

\* 'https://keys.openpgp.org'
E_DefaultEndpoint ==
  <<104, 116, 116, 112, 115, 58, 47, 47, 107, 101, 121, 115, 46, 111, 112,
    101, 110, 112, 103, 112, 46, 111, 114, 103>>


\* percent-unescaping of a data line's text, as the receiver of D lines does
\* it: %XX is the byte XX, any other character is its own byte (evaluated by
\* halves, cut between two characters that belong to no common escape)
RECURSIVE Unescape(_)
Unescape(t) ==
  IF t = <<>> THEN <<>>
  ELSE IF Len(t) <= 3
    THEN IF t[1] = 37 /\ Len(t) = 3
           THEN <<16 * HexValue(t[2]) + HexValue(t[3])>>
           ELSE <<t[1]>> \o Unescape(Tail(t))
  ELSE LET h == Len(t) \div 2
           c == IF t[h] = 37 THEN h - 1
                ELSE IF t[h - 1] = 37 THEN h - 2 ELSE h
           cut == IF c = 0 THEN 3 ELSE c
       IN  Unescape(SubSeq(t, 1, cut)) \o Unescape(SubSeq(t, cut + 1, Len(t)))

\* the unescaped bytes of the data lines resp[from..to], concatenated
RECURSIVE DataOf(_, _, _)
DataOf(resp, from, to) ==
  IF from > to THEN <<>>
  ELSE Unescape(SubSeq(resp[from], Len(Lead.D) + 1, Len(resp[from])))
         \o DataOf(resp, from + 1, to)

\* resp is a SOURCE status line, one or more D lines that carry body, an END
\* line and an OK line, in this order
IsDataResponse(resp, body) ==
  /\ Len(resp) >= 4
  /\ StartsWith(resp[1], E_StatusSource)
  /\ \A i \in 2..(Len(resp) - 2) : StartsWith(resp[i], Lead.D)
  /\ DataOf(resp, 2, Len(resp) - 2) = body
  /\ resp[Len(resp) - 1] = Lead.END
  /\ resp[Len(resp)] = Lead.OK

\* C15: the line `KS_GET 0x1234ABCD`, with the collaborator returning a
\* payload of PayloadLen bytes, is answered by a SOURCE status line, D lines
\* whose unescaped bytes are exactly the payload, END and OK.
C15_KsGetRoundTrip ==
  eng.last.line = Line.KsGet =>
    /\ Len(eng.last.bodies) = 1
    /\ Len(eng.last.bodies[1]) = PayloadLen
    /\ IsDataResponse(eng.last.resp, eng.last.bodies[1])

\* C16: when the fetch collaborator fails (and no session-reset message came
\* in between), the response to KS_SEARCH, KS_GET or KS_FETCH is the single
\* line `ERR 1 <message>`, with no SOURCE, data, END or OK line.
C16_FetchFailureSingleErr ==
  (eng.last.failed /\ eng.resets = 0) =>
    (Len(eng.last.resp) = 1 /\ StartsWith(eng.last.resp[1], E_Err1))

\* C17: once BYE was received, the engine has answered it with OK and has
\* ended the session: BYE is the last command it processed, both channels
\* are closed and the result is posted.
C17_ByeTerminates ==
  eng.byeSeen =>
    /\ eng.last.line = Line.Bye
    /\ eng.last.resp = <<E_OkClosing>>
    /\ eng.pc = "stopped" /\ eng.inClosed /\ eng.outClosed
    /\ eng.results = <<0>>

\* C18: after a command was answered with ERR the engine is still in its
\* loop with both channels open, unless its peer closed the input channel,
\* and the command after an ERR gets its usual answer.
C18_ErrKeepsEngineRunning ==
  /\ (eng.last.term = "ERR" /\ ~eng.peerClosed) =>
       (eng.pc \in {"loop", "fetch"} /\ ~eng.inClosed /\ ~eng.outClosed
          /\ eng.results = <<>>)
  /\ (eng.last.prevTerm = "ERR" /\ eng.last.line = Line.GetinfoVersion) =>
       eng.last.resp = <<E_DataVersion, Lead.END, Lead.OK>>
  /\ (eng.last.prevTerm = "ERR" /\ eng.last.line = Line.frob) =>
       eng.last.resp = <<E_UnsupportedFrob>>

C18_Witness ==
  /\ eng.last.prevTerm = "ERR" /\ eng.last.line = Line.GetinfoVersion
  /\ eng.last.term = "OK" /\ eng.pc = "loop" /\ ~eng.inClosed

\* C19: a line whose keyword is no supported command is answered by exactly
\* one line, `ERR 1 Unsupported command: ` and the keyword in upper case.
C19_UnsupportedCommand ==
  eng.last.line \in {Line.Frob, Line.frob} =>
    (eng.last.resp = <<E_UnsupportedFrob>>
       /\ eng.last.keyserversAfter = eng.last.keyserversBefore)

C19_Witness ==
  eng.last.line = Line.frob /\ eng.last.resp = <<E_UnsupportedFrob>>

\* C20: KEYSERVER with arguments leaves the previous list (the empty list
\* after --clear) followed by the normalized arguments, or the single default
\* endpoint when that is empty; the list is never empty, and KEYSERVER
\* without arguments reports its first endpoint.
C20_KeyserverList ==
  /\ eng.pc # "start" => eng.keyservers # <<>>
  /\ eng.last.line = Line.KeyserverClear =>
       eng.last.keyserversAfter = <<E_DefaultEndpoint>>
  /\ eng.last.line = Line.KeyserverClearA =>
       eng.last.keyserversAfter = <<E_HttpA>>
  /\ eng.last.line = Line.KeyserverB =>
       eng.last.keyserversAfter = Append(eng.last.keyserversBefore, E_HttpsB)
  /\ eng.last.line = Line.Keyserver =>
       /\ eng.last.keyserversBefore # <<>>
       /\ eng.last.resp =
            <<E_StatusKeyserver \o eng.last.keyserversBefore[1], Lead.OK>>
       /\ eng.last.keyserversAfter = eng.last.keyserversBefore

C20_Witness ==
  /\ eng.last.line = Line.KeyserverClear
  /\ Len(eng.last.keyserversBefore) = 2
  /\ eng.last.keyserversAfter = <<E_DefaultEndpoint>>

\* C21: after its construction state.keyservers changes only in a step of
\* the command loop that takes a line from the input and handles a KEYSERVER
\* command with a non-empty argument text; every other command, the fetch
\* results and the session-reset message leave it as it was.
C21_KeyserversFrame ==
  [][(eng.pc # "start" /\ eng'.keyservers # eng.keyservers) =>
       /\ eng.pc = "loop" /\ eng'.inq # eng.inq
       /\ commandOf(eng'.last.line) = Keyword.KEYSERVER
       /\ argTextOf(eng'.last.line) # <<>>
       /\ eng'.keyservers = eng'.last.keyserversAfter]_vars

\* a command other than KEYSERVER was handled while the list differed from
\* the initial one, after a session-reset message
C21_Witness ==
  /\ eng.last.line # <<>>
  /\ commandOf(eng.last.line) # Keyword.KEYSERVER
  /\ eng.keyservers # <<DefaultEndpoint>>
  /\ eng.resets > 0

\* C22: a KEYSERVER command that clears the list and names keys.example.org,
\* hkp://keys.example.org, hkps://keys.example.org/ or
\* HKPS://keys.example.org leaves the one endpoint https://keys.example.org.
C22_EndpointNormalization ==
  \A f \in {"Bare", "Hkp", "HkpsSlash", "HkpsUpper"} :
    eng.last.line = Line.KeyserverClear \o <<32>> \o Endpoint[f] =>
      eng.last.keyserversAfter = <<Endpoint.Canonical>>

\* C23: the data lines the engine writes for a fetched byte array hold only
\* printable ASCII characters (no raw LF, CR or other byte outside 0x20 to
\* 0x7E), and percent-unescaping them gives back the byte array exactly.
C23_EscapeRoundTrip ==
  (eng.last.term = "OK"
     /\ commandOf(eng.last.line) \in {Keyword.KS_FETCH, Keyword.KS_SEARCH}) =>
    LET resp == eng.last.resp
    IN  /\ \A i \in 2..(Len(resp) - 2) :
             /\ StartsWith(resp[i], Lead.D)
             /\ \A k \in 1..Len(resp[i]) : resp[i][k] \in 32..126
        /\ DataOf(resp, 2, Len(resp) - 2) = eng.last.bodies[1]
        /\ Unescape(assuanEscapeChunk(eng.last.bodies[1]))
             = eng.last.bodies[1]

\* a fetched array with the bytes 0x00, 0x0A, 0x0D, 0x25 and 0x7F was sent
C23_Witness ==
  /\ eng.last.term = "OK"
  /\ commandOf(eng.last.line) = Keyword.KS_FETCH
  /\ eng.last.bodies = <<ShortBody>>
  /\ {0, 10, 13, 37, 127} \subseteq {ShortBody[i] : i \in 1..Len(ShortBody)}

\* the bytes the engine hands to sendDataBuffer for the last command: the
\* fetched body, for KS_GET with the LF the engine appends, and the version
\* text of GETINFO
PayloadOfLast ==
  CASE commandOf(eng.last.line) = Keyword.KS_GET ->
         pushBlock(<<>>, eng.last.bodies[1])
    [] commandOf(eng.last.line) = Keyword.GETINFO -> Token.VersionText
    [] OTHER -> eng.last.bodies[1]

\* C24: a data block is the payload split in order into 'D ' lines of at
\* most maxBytesPerChunk raw bytes each (at most 2 + 3 * maxBytesPerChunk
\* characters), followed at once by the only 'END' line of the response.
C24_DataBlockFraming ==
  (eng.last.term = "OK" /\ eng.last.line \in DataLines) =>
    LET resp == eng.last.resp
        ds == {i \in 1..Len(resp) : StartsWith(resp[i], Lead.D)}
        ends == {i \in 1..Len(resp) : resp[i] = Lead.END}
        e == CHOOSE i \in ends : TRUE
    IN  /\ Cardinality(ends) = 1
        /\ ds = (e - Cardinality(ds))..(e - 1)
        /\ \A i \in ds :
             /\ Len(resp[i]) <= 2 + 3 * maxBytesPerChunk
             /\ Len(DataOf(resp, i, i)) \in 1..maxBytesPerChunk
        /\ DataOf(resp, e - Cardinality(ds), e - 1) = PayloadOfLast

\* a payload of two full chunks and one byte was sent as three data lines
C24_Witness ==
  /\ eng.last.term = "OK" /\ eng.last.line = Line.KsFetch
  /\ Len(eng.last.bodies[1]) = 2 * maxBytesPerChunk + 1
  /\ Cardinality({i \in 1..Len(eng.last.resp) :
                    StartsWith(eng.last.resp[i], Lead.D)}) = 3

\* the two channels of the pair allocated for session s
BridgeOf(s) == {sb.sessions[s].bridge.gpgToAgent, sb.sessions[s].bridge.agentToGpg}

\* C25: every session started on the agent session worker is given a pair of
\* channels that did not exist before, differ from each other and are open
\* when run-session is posted; a closed flag that is 1 stays 1; and the
\* worker's active pair, and every channel a device callback touches, is the
\* pair of the session being run, so that no session works on the pair of an
\* earlier one.
C25_FreshOpenPairPerSession ==
  /\ [][/\ \A s \in 1..Len(sb'.sessions) :
             s > Len(sb.sessions) =>
               LET bridge == sb'.sessions[s].bridge
               IN  /\ bridge.gpgToAgent \notin 1..Len(sb.heap)
                   /\ bridge.agentToGpg \notin 1..Len(sb.heap)
                   /\ bridge.gpgToAgent # bridge.agentToGpg
                   /\ sb'.heap[bridge.gpgToAgent].closed = 0
                   /\ sb'.heap[bridge.agentToGpg].closed = 0
                   /\ sb'.mailbox[Len(sb'.mailbox)] =
                        [sessionId |-> s, bridge |-> bridge]
        /\ \A desc \in 1..Len(sb.heap) :
             sb.heap[desc].closed = 1 => sb'.heap[desc].closed = 1]_vars
  /\ [](/\ \A s, t \in 1..Len(sb.sessions) :
             s # t => BridgeOf(s) \cap BridgeOf(t) = {}
        /\ sb.activeBridge # NoActiveBridge =>
             sb.activeBridge = sb.sessions[sb.activeSessionId].bridge
        /\ \A u \in sb.used : u[2] \in BridgeOf(u[1]))

\* the second session runs on the runtime the first one booted, after the
\* first session's pair was closed, and its device callbacks have used both
\* channels of its own pair
C25_Witness ==
  /\ sb.boot = "done"
  /\ sb.pc = "main"
  /\ sb.activeSessionId = 2
  /\ \A desc \in BridgeOf(1) : sb.heap[desc].closed = 1
  /\ \A desc \in BridgeOf(2) : <<2, desc>> \in sb.used /\ sb.heap[desc].closed = 0

\* C26: the generation counter never decreases; the step in which a push
\* returns true, a pop returns a byte or a close completes raises it by
\* exactly one, a step in which a push returns false or a pop returns null
\* or undefined leaves it alone, and no other step changes it.
C26_GenerationMonotone ==
  [][/\ ctrl'[3] >= ctrl[3]
     /\ (push.pc # "idle" /\ push'.pc = "idle") =>
          ctrl'[3] = ctrl[3] + (IF push'.ret = "true" THEN 1 ELSE 0)
     /\ (pop.pc # "idle" /\ pop'.pc = "idle") =>
          ctrl'[3] = ctrl[3] + (IF pop'.ret.kind = "byte" THEN 1 ELSE 0)
     /\ (closer = "notify" /\ closer' = "idle") => ctrl'[3] = ctrl[3] + 1
     /\ ctrl'[3] # ctrl[3] =>
          \/ push.pc # "idle" /\ push'.pc = "idle" /\ push'.ret = "true"
          \/ pop.pc # "idle" /\ pop'.pc = "idle" /\ pop'.ret.kind = "byte"
          \/ closer = "notify" /\ closer' = "idle"]_vars

\* the successor of v as a 32-bit two's complement integer
Successor32(v) == IF v = 2147483647 THEN (-2147483647) - 1 ELSE v + 1

\* C26 (amended): the generation counter is a 32-bit integer that the step in
\* which a push returns true, a pop returns a byte or a close completes
\* advances by exactly one, wrapping from 2147483647 to -2147483648; a step in
\* which a push returns false or a pop returns null or undefined leaves it
\* alone, no other step changes it, and it decreases only when it wraps.
C26_GenerationAdvancesModulo ==
  [][/\ ctrl'[3] >= ctrl[3] \/ (ctrl[3] = 2147483647 /\ ctrl'[3] = (-2147483647) - 1)
     /\ (push.pc # "idle" /\ push'.pc = "idle") =>
          ctrl'[3] = (IF push'.ret = "true" THEN Successor32(ctrl[3]) ELSE ctrl[3])
     /\ (pop.pc # "idle" /\ pop'.pc = "idle") =>
          ctrl'[3] = (IF pop'.ret.kind = "byte" THEN Successor32(ctrl[3]) ELSE ctrl[3])
     /\ (closer = "notify" /\ closer' = "idle") => ctrl'[3] = Successor32(ctrl[3])
     /\ ctrl'[3] # ctrl[3] =>
          \/ push.pc # "idle" /\ push'.pc = "idle" /\ push'.ret = "true"
          \/ pop.pc # "idle" /\ pop'.pc = "idle" /\ pop'.ret.kind = "byte"
          \/ closer = "notify" /\ closer' = "idle"]_vars

\* the counter has wrapped, bytes were pushed and popped, the channel was
\* closed, a pop has just returned end-of-stream and a push was refused
C26_Witness ==
  /\ ctrl[3] < 0
  /\ Len(hist.popped) >= 1
  /\ hist.closeCalls >= 1
  /\ pop.pc = "idle" /\ pop.ret = RetNull
  /\ push.pc = "idle" /\ push.ret = "false"

\* C27: no step of queueClose changes head, tail or a stored byte; its first
\* step leaves the generation alone and leaves the closed flag set, its
\* second step changes nothing but the generation, which it raises by one;
\* so a close of a channel that is already closed changes the generation
\* only.
C27_CloseFrame ==
  [][closer' # closer =>
       /\ ctrl'[0] = ctrl[0]
       /\ ctrl'[1] = ctrl[1]
       /\ data' = data
       /\ ctrl'[2] = 1
       /\ closer = "idle" => ctrl'[3] = ctrl[3]
       /\ closer = "notify" => ctrl'[2] = ctrl[2] /\ ctrl'[3] = ctrl[3] + 1
       /\ ctrl[2] = 1 => ctrl' = [ctrl EXCEPT ![3] = ctrl'[3]]]_vars

\* a second close has completed on a channel that was already closed and
\* still holds an unread byte
C27_Witness ==
  /\ hist.closeCalls = 2
  /\ closer = "idle"
  /\ ctrl[0] # ctrl[1]
  /\ Len(hist.pushed) > Len(hist.popped)
  /\ ctrl[3] = Len(hist.pushed) + Len(hist.popped) + 2

\* C28: no step of summarizeQueue changes head, tail, the closed flag, the
\* generation or a stored byte; the summary it returns has
\* used = (head - tail) mod size for the head and tail it reports, and used
\* is the number of bytes pushed and not yet popped at the moment the call
\* loaded the index of the channel's other end (the index of its own end
\* cannot move during the call); a summary that says closed is of a channel
\* that is closed.
C28_SnapshotReadOnly ==
  /\ [][sb' # sb => ctrl' = ctrl /\ data' = data]_vars
  /\ [](sb.pc = "return" =>
          /\ sb.ret.size = QSize
          /\ sb.ret.used = (sb.ret.head - sb.ret.tail + QSize) % QSize
          /\ sb.ret.used = sb.held
          /\ sb.ret.closed => ctrl[2] = 1)

\* a summary of a ring whose head index has wrapped past its tail index is
\* being returned, it reports two bytes, and the other end has moved since
C28_Witness ==
  /\ sb.pc = "return"
  /\ sb.ret.head < sb.ret.tail
  /\ sb.ret.used = 2
  /\ Held # sb.held

\* 'OK Dirmngr fetch shim ready'
E_OkGreeting ==
  <<79, 75, 32, 68, 105, 114, 109, 110, 103, 114, 32, 102, 101, 116, 99,
    104, 32, 115, 104, 105, 109, 32, 114, 101, 97, 100, 121>>

\* C29: before its first step the engine has written nothing and signalled
\* nothing; its first step writes the one line `OK Dirmngr fetch shim ready`,
\* takes no byte of input and does not signal ready; ready is signalled by
\* the next step, which takes no input either; and a byte of input is taken
\* only by the command loop, after ready.
C29_GreetingFirst ==
  /\ [](eng.pc = "start" =>
          eng.resp = <<>> /\ eng.last = NoLast /\ ~eng.readyPosted)
  /\ [](eng.pc = "greeted" =>
          eng.last.resp = <<E_OkGreeting>> /\ ~eng.readyPosted)
  /\ [](eng.readyPosted => eng.pc \notin {"start", "greeted"})
  /\ [][/\ (eng.pc = "start" /\ eng'.pc # "start") =>
             /\ eng'.last.resp = <<E_OkGreeting>>
             /\ eng'.inq = eng.inq
             /\ ~eng'.readyPosted
        /\ (~eng.readyPosted /\ eng'.readyPosted) =>
             (eng.pc = "greeted" /\ eng'.inq = eng.inq /\ eng'.last = eng.last)
        /\ Len(eng'.inq) < Len(eng.inq) =>
             (eng.pc = "loop" /\ eng.readyPosted)]_vars

\* a command line written before the engine started is still unread when the
\* greeting has gone out and ready is not yet signalled
C29_Witness ==
  /\ eng.pc = "greeted"
  /\ eng.fed = 1
  /\ eng.inq = Line.GetinfoVersion \o <<10>>
  /\ eng.last.resp = <<E_OkGreeting>>
  /\ ~eng.readyPosted

\* C30: when a read of a positive length returns 0, the inbound channel is
\* closed and empty at that step, and no byte pushed before the close is
\* still unread.
C30_ReadEosOnlyWhenDrained ==
  [][(rd.pc = "after_loop" /\ rd'.pc = "idle" /\ rd.length > 0
        /\ rd'.ret = DevCount(0)) =>
       (ctrl[2] # 0 /\ ctrl[0] = ctrl[1] /\ hist.unreadAtClose = 0)]_vars

\* C31: a callback that poll registered does not stay registered for ever
\* while the inbound channel has pending data or is closed: again and again
\* it is either no longer registered (the watcher has invoked it) or the
\* channel is open and empty.
C31_RegisteredCallbackInvoked ==
  \A i \in 1..MaxReg :
    []<>(~(i \in Registered(watch) /\ (queueHasData \/ qClosed # 0)))

\* a greeting line at position i of lines that has a line of the command
\* before it and a line of the command after it
GreetingInside(lines, i) ==
  /\ lines[i] = E_OkGreeting
  /\ \E j \in 1..(i - 1) : lines[j] # E_OkGreeting
  /\ \E k \in (i + 1)..Len(lines) : lines[k] # E_OkGreeting

\* C32: the lines written for one command are contiguous on the outbound
\* channel: no greeting line stands between the first line of the command's
\* response and its terminating OK / ERR line, a session-reset delivered
\* during the await of a fetch included.
C32_ResponseContiguous ==
  eng.variant # "none" =>
    \A i \in 1..Len(eng.last.resp) : ~GreetingInside(eng.last.resp, i)

\* a line starting with `OK` or `ERR`
IsTerminatingLine(l) ==
  StartsWith(l, <<79, 75>>) \/ StartsWith(l, <<69, 82, 82>>)

\* the positions of the terminating lines among lines
TerminatingLines(lines) ==
  {i \in 1..Len(lines) : IsTerminatingLine(lines[i])}

\* C33: for every non-empty command line the engine has consumed and
\* answered, the lines it wrote in response hold exactly one line starting
\* with `OK` or `ERR`, never none and never two.
C33_OneTerminatingLine ==
  (eng.variant # "none" /\ eng.last.line # <<>>) =>
    Cardinality(TerminatingLines(eng.last.resp)) = 1

\* the engine at its blocking pop with gpgToDirmngr closed and no byte left
ClosedAndDrained ==
  eng.variant # "none" /\ eng.pc = "loop" /\ eng.inq = <<>> /\ eng.inClosed

\* C34: when the input channel is closed and drained the engine leaves its
\* loop; once it has left, both channels are closed and exactly one result
\* with exit code 0 has been posted; and from then on it writes no line and
\* posts nothing more.
C34_StopsOnClosedInput ==
  /\ ClosedAndDrained ~> (eng.variant # "none" /\ eng.pc = "stopped")
  /\ []((eng.variant # "none" /\ eng.pc = "stopped") =>
          (eng.inClosed /\ eng.outClosed /\ eng.results = <<0>>))
  /\ [][(eng.variant # "none" /\ eng.pc = "stopped") => eng' = eng]_vars

\* the peer closed its channel after a command was answered, and the engine
\* has stopped
C34_Witness ==
  /\ eng.variant = "part_000" /\ eng.pc = "stopped" /\ eng.peerClosed
  /\ eng.last.line # <<>> /\ eng.results = <<0>> /\ eng.outClosed

\* the worker has a session: one is inside callMain, or a run-session it has
\* taken is waiting for the runtime to boot
SessionInHand ==
  sb.sessionRunning \/ sb.awaiting # <<>>

\* C35: the session worker has one session at a time: a run-session message
\* it takes while it has a session in hand (running, or waiting for the
\* runtime that boots for an earlier run-session) is answered at once with a
\* session-result for that message, and the active session and the channel
\* pairs are left as they are.
C35_SecondRunSessionRefused ==
  [][(sb.kind = "sessions" /\ sb.mailbox # <<>> /\ SessionInHand
        /\ sb'.mailbox = Tail(sb.mailbox)) =>
       /\ sb'.outbox = Append(sb.outbox,
                              [type |-> "session-result",
                               sessionId |-> Head(sb.mailbox).sessionId])
       /\ sb'.awaiting = sb.awaiting
       /\ sb'.activeBridge = sb.activeBridge
       /\ sb'.heap = sb.heap]_vars

\* C36: every run message the gpg worker accepted has at most one result
\* message, and exactly one once the worker has closed, whichever of exit,
\* abort, launcher error and run timeout happened and in whatever order.
C36_OneResultPerRun ==
  sb.kind = "run" =>
    \A i \in 1..Len(sb.runs) :
      /\ Len(sb.runs[i].posted) <= 1
      /\ sb.closed => Len(sb.runs[i].posted) = 1

\* the calls of run() that were let in and have not settled
ActiveCalls ==
  {i \in 1..Len(sb.calls) : sb.calls[i].pc \in {"agent", "promise"}}

\* C37: the client has at most one active run: _runInProgress is true
\* exactly while a call of run() that was let in is unsettled (so it is false
\* after a resolve, a reject and a failure of the agent session start), and a
\* call of run() made while it is true is refused and leaves the flag and
\* the active call as they are.
C37_OneActiveRun ==
  /\ [](sb.kind = "client" =>
          /\ Cardinality(ActiveCalls) <= 1
          /\ sb.runInProgress <=> ActiveCalls # {})
  /\ [][(sb.kind = "client" /\ sb.runInProgress
           /\ Len(sb'.calls) > Len(sb.calls)) =>
          /\ sb'.calls[Len(sb'.calls)].worker = "none"
          /\ sb'.calls[Len(sb'.calls)].pc = "returned"
          /\ SubSeq(sb'.calls, 1, Len(sb.calls)) = sb.calls
          /\ sb'.runInProgress]_vars

\* a second call of run() was refused while the first, past the start of its
\* agent session, is still waiting for its worker
C37_Witness ==
  /\ sb.kind = "client" /\ Len(sb.calls) = 2
  /\ sb.calls[2].outcome = "refused"
  /\ sb.calls[1].pc = "promise" /\ sb.calls[1].session
  /\ sb.runInProgress

\* C38: once the promise of a call of run() has settled, the gpg Worker that
\* call spawned is terminated, or its termination is scheduled.
C38_WorkerTerminated ==
  sb.kind = "client" =>
    \A i \in 1..Len(sb.calls) :
      sb.calls[i].pc = "returned" =>
        sb.calls[i].worker \in {"none", "scheduled", "terminated"}

\* d is what trim() makes of s
IsTrimOf(d, s) ==
  IF d = <<>> THEN \A i \in 1..Len(s) : IsSpace(s[i])
  ELSE /\ ~IsSpace(d[1]) /\ ~IsSpace(d[Len(d)])
       /\ \E k \in 0..(Len(s) - Len(d)) :
            /\ \A i \in 1..k : IsSpace(s[i])
            /\ \A i \in (k + Len(d) + 1)..Len(s) : IsSpace(s[i])
            /\ SubSeq(s, k + 1, k + Len(d)) = d

\* the bytes of the first line of q, without its terminator and without the
\* bytes 13 the engine skips
FirstLineOf(q) == SelectSeq(SubSeq(q, 1, IndexOf(q, 10) - 1), NotCR)

\* C39: the line the engine dispatches is the whole byte sequence received up
\* to the line terminator (decoded and trimmed), never a part of it: a line
\* longer than 65536 bytes is not dispatched as a command made of its last
\* bytes.
C39_WholeLineDispatched ==
  [][(eng.variant # "none" /\ eng.pc = "loop" /\ eng.inq # <<>>
        /\ eng'.last # eng.last) =>
       IsTrimOf(eng'.last.line, textDecoderDecode(FirstLineOf(eng.inq)))]_vars

\* C40: normalizing a normalized endpoint returns it unchanged: the endpoint
\* stored in the list, which the SOURCE status line reports, is the one the
\* lookup URL is built from.
C40_NormalizeIdempotent ==
  (sb.kind = "lookup" /\ sb.pc = "lookup") => sb.root = sb.stored

=============================================================================
